---- MODULE Spec2Model ----
(***************************************************************************)
(* Verification model of the multi-provider aggregation core:              *)
(*   - ProviderManager (src/src/lib/api-providers/types.ts, 377-786)       *)
(*   - provider adapters' execute/validateRequest                          *)
(*   - citation extraction of the Perplexity and Azure OpenAI Search       *)
(*     adapters                                                            *)
(*   - calculateCumulativeAnalytics (src/unnamed/part_002, 347-572)        *)
(*   - calculateLifetimeBrandAnalytics (src/unnamed/part_002, 574-774)     *)
(*   - updateBrandWithQueryResults (firestore/getUserBrands.ts, 123-215)   *)
(*   - the process-queries component (src/unnamed/part_004, 26-337)        *)
(*   - the analytics hooks (src/src/hooks/useBrandAnalytics.ts, 16-174)    *)
(* JavaScript runs every callback to completion, so one action is one      *)
(* synchronous segment between two suspension points.                      *)
(***************************************************************************)
EXTENDS Integers, Sequences, FiniteSets, TLC

VARIABLES
    \* ---- ProviderManager ----
    env,          \* process.env seen by getProviderConfigs
    constructed,  \* TRUE once the constructor has run
    providers,    \* ProviderManager.providers (keys of the map)
    activeJobs,   \* ProviderManager.activeJobs : request id -> job handle
    jobs,         \* every promise created by processRequest, by handle
    calls,        \* every invocation of executeRequest
    \* ---- one provider adapter running execute(request) ----
    adapter,          \* which adapter class
    request,          \* the provider-specific request passed to execute
    apc,              \* position inside execute
    rateLimitChecks,  \* calls of checkRateLimit made
    networkCalls,     \* HTTP requests issued
    attempt,          \* attempts made by retryRequest
    response,         \* the APIResponse execute resolved with
    \* ---- citation extraction ----
    extractor,        \* which adapter's transformResponse runs
    content,          \* message.content of the raw response (characters)
    rawCitations,     \* message.context.citations of the raw response
    cpc,              \* "raw" before transformResponse, "done" after
    citations,        \* citations of the Perplexity adapter's result
    annotations,      \* annotations of the Azure OpenAI Search adapter's result
    \* ---- analytics fold ----
    queryResults,     \* the queryResults argument of calculateCumulativeAnalytics
    fpc,              \* "input" before the call, "done" after
    analyses,         \* what analyzeBrandMentions returned for each query result
    analytics,        \* the BrandAnalyticsData returned
    \* ---- the brand document's stored history ----
    history,          \* queryProcessingResults of the brand document
    upd,              \* every caller's invocation of updateBrandWithQueryResults
    updLog,           \* the invocations that finished, in order, and whether their setDoc landed
    \* ---- the process-queries component ----
    run,              \* the local variables of the running handleProcessQueries
    processing,       \* useState: processing
    status,           \* useState: status
    cancelledRef,     \* cancelledRef.current
    timers,           \* pending 5-second status-reset timers
    runs,             \* clicks on the process button so far
    clock,            \* Date.now()
    apiCalls,         \* the /api/user-query calls started, in order
    completions,      \* the arguments onComplete was called with, in order
    saveErrors,       \* 'Error saving individual result' lines on the console
    stops,            \* where the runs were when the stop button was clicked
    \* ---- calculateLifetimeBrandAnalytics ----
    sources,          \* what is stored: the brand document, Cloud Storage, v8userqueries
    life,             \* the local variables of the latest calculateLifetimeBrandAnalytics call
    lifeLog,          \* what the calls returned, in order
    \* ---- useLatestBrandAnalytics / useLifetimeBrandAnalytics ----
    brandId,          \* the brandId prop of the hooks
    hook,             \* useState of each hook: analytics, loading, error
    fetches           \* the fetchAnalytics calls started by the effects, in order

mgrVars == <<env, constructed, providers, activeJobs, jobs, calls>>

adVars == <<adapter, request, apc, rateLimitChecks, networkCalls, attempt, response>>

citVars == <<extractor, content, rawCitations, cpc, citations, annotations>>

foldVars == <<queryResults, fpc, analyses, analytics>>

storeVars == <<history, upd, updLog>>

runVars == <<run, processing, status, cancelledRef, timers, runs, clock,
             apiCalls, completions, saveErrors, stops>>

\* the browser side
clientVars == <<storeVars, runVars>>

lifeVars == <<sources, life, lifeLog>>

hookVars == <<brandId, hook, fetches>>

\* the reading side: the lifetime fold and the hooks that call it
viewVars == <<lifeVars, hookVars>>

\* the server side and the analytics
serverVars == <<mgrVars, adVars, citVars, foldVars>>

vars == <<mgrVars, adVars, citVars, foldVars, clientVars, viewVars>>

----------------------------------------------------------------------------
(* Bounds *)

MaxCalls == 2        \* executeRequest invocations per behaviour
MaxProviders == 2    \* length of request.providers
AdapterCost == 2     \* cost reported by a successful adapter call
AdapterTime == 5     \* responseTime reported by an adapter
MaxContentLen == 4   \* characters of a response text
MaxRawCitations == 2 \* length of the provider's citation array
MaxQueries == 2      \* query results folded by one call
ManyCitations == 1001  \* citations of one long answer
MaxUpdates == 2      \* updateBrandWithQueryResults calls made by the pages
MaxRuns == 1         \* clicks on the process button
MaxRunQueries == 2   \* queries of the brand
MaxClicks == 2       \* clicks on the process button in a row of short runs
MaxFolds == 2        \* calculateLifetimeBrandAnalytics calls on one stored history
MaxBrandChanges == 2 \* values the brandId prop takes

----------------------------------------------------------------------------
(* Small helpers *)

Range(s) == {s[i] : i \in 1..Len(s)}

RECURSIVE SumCost(_)
SumCost(rs) == IF rs = <<>> THEN 0 ELSE rs[1].cost + SumCost(Tail(rs))

SeqsUpTo(S, n) == UNION {[1..k -> S] : k \in 0..n}

----------------------------------------------------------------------------
(* Configuration: getProviderConfigs / initializeProviders *)

\* A process.env entry: undefined, the empty string, a blank string, a value
EnvValues == {"undefined", "", " ", "key"}

EnvNames == {"AZURE_OPENAI_API_KEY", "OPENAI_API_KEY", "CHATGPT_SEARCH_API_KEY",
             "PERPLEXITY_API_KEY", "GOOGLE_AI_API_KEY", "GEMINI_API_KEY",
             "DATAFORSEO_USERNAME", "DATAFORSEO_PASSWORD"}

Truthy(v) == v \notin {"undefined", ""}

\* a || b
Or(a, b) == IF Truthy(a) THEN a ELSE b

\* String.prototype.trim on the modelled values
Trim(v) == IF v = " " THEN "" ELSE v

\* key && key.trim() !== ''
Usable(v) == Truthy(v) /\ Trim(v) # ""

AzurePlaceholderKey == "your_azure_openai_api_key_here"

\* the list of configs, in push order
GetProviderConfigs(e) ==
    LET chatgptSearchApiKey == Or(e["OPENAI_API_KEY"], e["CHATGPT_SEARCH_API_KEY"])
        perplexityApiKey    == e["PERPLEXITY_API_KEY"]
        geminiApiKey        == Or(e["GOOGLE_AI_API_KEY"], e["GEMINI_API_KEY"])
        user                == e["DATAFORSEO_USERNAME"]
        pass                == e["DATAFORSEO_PASSWORD"]
    IN  \* the Azure OpenAI config is pushed unconditionally (lines 423-432)
        << [name |-> "azure-openai", type |-> "azure-openai",
            apiKey |-> Or(e["AZURE_OPENAI_API_KEY"], AzurePlaceholderKey)] >>
        \o (IF Usable(chatgptSearchApiKey)
            THEN << [name |-> "chatgptsearch", type |-> "chatgptsearch",
                     apiKey |-> chatgptSearchApiKey] >>
            ELSE << >>)
        \o (IF Usable(perplexityApiKey)
            THEN << [name |-> "perplexity", type |-> "perplexity",
                     apiKey |-> perplexityApiKey] >>
            ELSE << >>)
        \o (IF Usable(geminiApiKey)
            THEN << [name |-> "google-gemini", type |-> "google-gemini",
                     apiKey |-> geminiApiKey] >>
            ELSE << >>)
        \o (IF Truthy(user) /\ Truthy(pass) /\ Trim(user) # "" /\ Trim(pass) # ""
            THEN << [name |-> "google-ai-overview", type |-> "google-ai-overview",
                     apiKey |-> ""] >>
            ELSE << >>)

KnownTypes == {"azure-openai", "google-gemini", "chatgptsearch",
               "google-ai-overview", "perplexity"}

\* the keys of this.providers, in insertion order, after the forEach over
\* the configs (a config of unknown type is skipped)
InitializeProviders(configs) ==
    LET F[i \in 0..Len(configs)] ==
            IF i = 0 THEN << >>
            ELSE IF configs[i].type \in KnownTypes
                 THEN Append(F[i-1], configs[i].name)
                 ELSE F[i-1]
    IN  F[Len(configs)]

GetAvailableProviders == providers

----------------------------------------------------------------------------
(* ProviderManager.executeRequest / processRequest *)

RequestIds == {"r1", "r2"}

\* provider names a caller may put in request.providers
RequestNames == {"perplexity", "no-such-provider"}

\* how an adapter's execute promise settles: resolved with a response, or
\* rejected
Outcomes == {"success", "throw"}

NoValue == [providerId |-> "", requestId |-> "", status |-> "none",
            error |-> "", responseTime |-> 0, cost |-> 0]

\* what provider.execute resolves with (adapters build their own requestId)
AdapterResponse(name) ==
    [providerId |-> name, requestId |-> "adapter-generated",
     status |-> "success", error |-> "",
     responseTime |-> AdapterTime, cost |-> AdapterCost]

NotFound(name, id) ==
    [providerId |-> name, requestId |-> id, status |-> "error",
     error |-> "Provider not found", responseTime |-> 0, cost |-> 0]

Caught(name, id) ==
    [providerId |-> name, requestId |-> id, status |-> "error",
     error |-> "adapter threw", responseTime |-> 0, cost |-> 0]

\* variant: no try/catch around provider.execute, the callback rejects
CallbackNoCatch(name, id, o) ==
    IF o = "throw"
    THEN [state |-> "rejected", value |-> Caught("", id)]
    ELSE [state |-> "fulfilled", value |-> AdapterResponse(name)]

\* settlement of one mapped callback once provider.execute has settled
Callback(name, id, o) ==
    IF o = "throw"
    THEN [state |-> "fulfilled", value |-> Caught(name, id)]
    ELSE [state |-> "fulfilled", value |-> AdapterResponse(name)]

HasProvider(name) == name \in Range(providers)

\* variant: the existence check is skipped and every name is executed
StartCallsExecuteUnknown(id, names) ==
    [i \in 1..Len(names) |-> [state |-> "pending", value |-> NoValue, executed |-> TRUE, outcome |-> "none"]]

\* providerNames.map(async ...): every callback runs synchronously up to its
\* first await, so every adapter is invoked before processRequest suspends;
\* a name missing from the map resolves at once with 'Provider not found'
StartCalls(id, names) ==
    [i \in 1..Len(names) |->
        IF ~HasProvider(names[i])
        THEN [state |-> "fulfilled", value |-> NotFound(names[i], id), executed |-> FALSE, outcome |-> "none"]
        ELSE [state |-> "pending", value |-> NoValue, executed |-> TRUE, outcome |-> "none"]]

ProviderNames(requested) ==
    IF Len(requested) > 0 THEN requested ELSE providers

\* indices of the calls already settled, in index order
SettledAtStart(cs) ==
    LET F[i \in 0..Len(cs)] ==
            IF i = 0 THEN << >>
            ELSE IF cs[i].state = "fulfilled" THEN Append(F[i-1], i) ELSE F[i-1]
    IN  F[Len(cs)]

NewJob(id, requested) ==
    LET names == ProviderNames(requested)
        cs    == StartCalls(id, names)
    IN  [id |-> id, requested |-> requested, names |-> names, calls |-> cs,
         order |-> SettledAtStart(cs), done |-> FALSE,
         results |-> << >>, totalCost |-> 0, aggregated |-> "pending"]

\* variant: the check for a running job is missing
HasActiveJobNever(id) == FALSE

\* this.activeJobs.has(jobId)
HasActiveJob(id) == id \in DOMAIN activeJobs

\* variant: the join gives up at the first failed call (Promise.all)
JoinReadyOnFirstError(cs) ==
    \/ \A i \in 1..Len(cs) : cs[i].state \in {"fulfilled", "rejected"}
    \/ \E i \in 1..Len(cs) : cs[i].state \in {"fulfilled", "rejected"}
                               /\ cs[i].value.status = "error"

\* Promise.allSettled(promises) resolves when every promise has settled
JoinReady(cs) ==
    \A i \in 1..Len(cs) : cs[i].state \in {"fulfilled", "rejected"}

Rejected(id, reason) ==
    [providerId |-> "unknown", requestId |-> id, status |-> "error",
     error |-> reason, responseTime |-> 0, cost |-> 0]

\* variant: entries pushed as the calls settle
CollectResultsInSettleOrder(job) ==
    [k \in 1..Len(job.order) |-> job.calls[job.order[k]].value]

\* responses.forEach(...): one entry per promise, in the order of the promises
CollectResults(job) ==
    [i \in 1..Len(job.calls) |->
        IF job.calls[i].state = "fulfilled"
        THEN job.calls[i].value
        ELSE Rejected(job.id, job.calls[i].value.error)]

AggregateResults(results) ==
    LET ok == SelectSeq(results, LAMBDA r : r.status = "success")
    IN  IF Len(ok) = 0 THEN "All providers failed" ELSE ok[1].providerId

ExecuteRequest(id, requested) ==
    /\ constructed
    /\ Len(calls) < MaxCalls
    /\ IF HasActiveJob(id)
       THEN /\ calls' = Append(calls, [id |-> id, job |-> activeJobs[id],
                                       creator |-> FALSE, returned |-> FALSE])
            /\ UNCHANGED <<jobs, activeJobs>>
       ELSE /\ jobs' = Append(jobs, NewJob(id, requested))
            /\ activeJobs' = [k \in DOMAIN activeJobs \cup {id} |->
                                 IF k = id THEN Len(jobs) + 1 ELSE activeJobs[k]]
            /\ calls' = Append(calls, [id |-> id, job |-> Len(jobs) + 1,
                                       creator |-> TRUE, returned |-> FALSE])
    /\ UNCHANGED <<env, constructed, providers, adVars, citVars, foldVars, clientVars, viewVars>>

\* the execute promise of call i of job j settles
Settle(j, i, o) ==
    /\ j \in 1..Len(jobs)
    /\ i \in 1..Len(jobs[j].calls)
    /\ jobs[j].calls[i].state = "pending"
    /\ LET cb == Callback(jobs[j].names[i], jobs[j].id, o)
       IN  jobs' = [jobs EXCEPT ![j].calls[i].state = cb.state,
                                ![j].calls[i].value = cb.value,
                                ![j].calls[i].outcome = o,
                                ![j].order = Append(@, i)]
    /\ UNCHANGED <<env, constructed, providers, activeJobs, calls, adVars, citVars, foldVars, clientVars, viewVars>>

\* processRequest resumes after the await of Promise.allSettled
JobComplete(j) ==
    /\ j \in 1..Len(jobs)
    /\ ~jobs[j].done
    /\ JoinReady(jobs[j].calls)
    /\ LET rs == CollectResults(jobs[j])
       IN  jobs' = [jobs EXCEPT ![j].done = TRUE,
                                ![j].results = rs,
                                ![j].totalCost = SumCost(rs),
                                ![j].aggregated = AggregateResults(rs)]
    /\ UNCHANGED <<env, constructed, providers, activeJobs, calls, adVars, citVars, foldVars, clientVars, viewVars>>

\* variant: no finally block, the entry stays
EntryKept(c) == activeJobs

\* lines 534-538: the invocation that created the job deletes the entry of
\* its request id; an invocation that found the job running has returned the
\* job's promise at line 527 and deletes nothing
EntryDeleted(c) ==
    IF calls[c].creator
    THEN [k \in DOMAIN activeJobs \ {calls[c].id} |-> activeJobs[k]]
    ELSE activeJobs

\* executeRequest resumes after "await jobPromise"; the invocation that
\* created the job runs its finally block
CallerReturn(c) ==
    /\ c \in 1..Len(calls)
    /\ ~calls[c].returned
    /\ jobs[calls[c].job].done
    /\ calls' = [calls EXCEPT ![c].returned = TRUE]
    /\ activeJobs' = EntryDeleted(c)
    /\ UNCHANGED <<env, constructed, providers, jobs, adVars, citVars, foldVars, clientVars, viewVars>>

\* new ProviderManager()
Construct ==
    /\ ~constructed
    /\ constructed' = TRUE
    /\ providers' = InitializeProviders(GetProviderConfigs(env))
    /\ UNCHANGED <<env, activeJobs, jobs, calls, adVars, citVars, foldVars, clientVars, viewVars>>

----------------------------------------------------------------------------
(* Provider adapters: execute / validateRequest *)

Adapters == {"google-ai-overview", "perplexity", "azure-openai-search"}

RetryAttempts == 3

\* JavaScript values of a string-typed field as callers can pass them:
\* undefined, '', a blank string, a text, or a number
FieldValues == {"undefined", "", " ", "text", "#5"}

TypeofString(v) == v \in {"", " ", "text"}

\* request.messages: undefined, a non-array object, or an array of messages;
\* a message is null or an object with role and content
NoMessages  == [kind |-> "undefined", items |-> << >>]
ObjMessages == [kind |-> "object", items |-> << >>]
Msg(r, c) == [null |-> FALSE, role |-> r, content |-> c]
NullMsg == [null |-> TRUE, role |-> "", content |-> ""]
ArrMessages(items) == [kind |-> "array", items |-> items]

MessagesValues ==
    { NoMessages, ObjMessages, ArrMessages(<< >>),
      ArrMessages(<< Msg("user", "text") >>),
      ArrMessages(<< Msg("user", "") >>),
      ArrMessages(<< Msg("user", "text"), Msg("", "text") >>),
      ArrMessages(<< NullMsg >>) }

Requests(a) ==
    CASE a = "google-ai-overview" ->
            [keyword : FieldValues, prompt : {"undefined"}, input : {"undefined"},
             messages : {NoMessages}]
      [] a = "perplexity" ->
            [keyword : {"undefined"}, prompt : {"undefined", "", "text", "#5"},
             input : {"undefined", "", "text"},
             messages : {NoMessages, ObjMessages, ArrMessages(<< >>)}]
      [] OTHER ->
            [keyword : {"undefined"}, prompt : {"undefined"}, input : {"undefined"},
             messages : MessagesValues]

\* validateRequest of each adapter: "true", "false", or "throws" when the
\* evaluation itself raises a TypeError (a null message)
ValidateRequest(a, r) ==
    CASE a = "google-ai-overview" ->
            IF Truthy(r.keyword) /\ TypeofString(r.keyword) /\ Trim(r.keyword) # ""
            THEN "true" ELSE "false"
      [] a = "perplexity" ->
            IF /\ (Truthy(r.prompt) \/ Truthy(r.input) \/ r.messages.kind # "undefined")
               /\ (TypeofString(r.prompt) \/ TypeofString(r.input)
                   \/ r.messages.kind = "array")
            THEN "true" ELSE "false"
      [] OTHER ->
            IF r.messages.kind # "array" \/ Len(r.messages.items) = 0
            THEN "false"
            ELSE LET FirstBad[i \in 1..(Len(r.messages.items) + 1)] ==
                        \* Array.prototype.every stops at the first falsy answer
                        IF i > Len(r.messages.items) THEN "true"
                        ELSE IF r.messages.items[i].null THEN "throws"
                        ELSE IF Truthy(r.messages.items[i].role)
                                /\ Truthy(r.messages.items[i].content)
                             THEN FirstBad[i + 1]
                             ELSE "false"
                 IN  FirstBad[1]

NoResponse == [providerId |-> "", status |-> "none", error |-> "", cost |-> 0]

ErrorResponse(a, msg) ==
    [providerId |-> a, status |-> "error", error |-> msg, cost |-> 0]

SuccessResponse(a) ==
    [providerId |-> a, status |-> "success", error |-> "", cost |-> AdapterCost]

\* variant: the result of validateRequest is ignored
ProceedsUnvalidated(a, r) == ValidateRequest(a, r) # "throws"

\* if (!this.validateRequest(request)) throw ...: execute goes on to the
\* rate-limit check only for a request that validates
Proceeds(a, r) == ValidateRequest(a, r) = "true"

\* retryRequest: another attempt while attempts remain, else the last error
\* is thrown
RetryRequest(n) == IF n < RetryAttempts THEN "retry" ELSE "throw"

\* execute up to its first await
ExecuteStart ==
    /\ apc = "called"
    /\ IF Proceeds(adapter, request)
       THEN /\ rateLimitChecks' = rateLimitChecks + 1
            /\ apc' = "awaitRateLimit"
            /\ UNCHANGED response
       ELSE /\ response' = ErrorResponse(adapter,
                              IF ValidateRequest(adapter, request) = "false"
                              THEN "Invalid request format"
                              ELSE "TypeError")
            /\ apc' = "done"
            /\ UNCHANGED rateLimitChecks
    /\ UNCHANGED <<adapter, request, networkCalls, attempt, mgrVars, citVars, foldVars, clientVars, viewVars>>

\* checkRateLimit resolved: the payload is built and the request is sent
RateLimitPassed ==
    /\ apc = "awaitRateLimit"
    /\ networkCalls' = networkCalls + 1
    /\ attempt' = 1
    /\ apc' = "awaitNetwork"
    /\ UNCHANGED <<adapter, request, rateLimitChecks, response, mgrVars, citVars, foldVars, clientVars, viewVars>>

\* checkRateLimit rejected: the catch block answers
RateLimitRejected ==
    /\ apc = "awaitRateLimit"
    /\ response' = ErrorResponse(adapter, "Rate limit exceeded")
    /\ apc' = "done"
    /\ UNCHANGED <<adapter, request, rateLimitChecks, networkCalls, attempt, mgrVars, citVars, foldVars, clientVars, viewVars>>

\* the HTTP call answered 2xx with JSON
NetworkSuccess ==
    /\ apc = "awaitNetwork"
    /\ response' = SuccessResponse(adapter)
    /\ apc' = "done"
    /\ UNCHANGED <<adapter, request, rateLimitChecks, networkCalls, attempt, mgrVars, citVars, foldVars, clientVars, viewVars>>

\* the HTTP call failed (non-2xx or network error)
NetworkFailure ==
    /\ apc = "awaitNetwork"
    /\ IF RetryRequest(attempt) = "retry"
       THEN /\ networkCalls' = networkCalls + 1
            /\ attempt' = attempt + 1
            /\ UNCHANGED <<apc, response>>
       ELSE /\ response' = ErrorResponse(adapter, "HTTP 500")
            /\ apc' = "done"
            /\ UNCHANGED <<networkCalls, attempt>>
    /\ UNCHANGED <<adapter, request, rateLimitChecks, mgrVars, citVars, foldVars, clientVars, viewVars>>

IdleAdapter ==
    /\ adapter = "none"
    /\ request = [keyword |-> "undefined", prompt |-> "undefined",
                  input |-> "undefined", messages |-> NoMessages]
    /\ apc = "idle"
    /\ rateLimitChecks = 0
    /\ networkCalls = 0
    /\ attempt = 0
    /\ response = NoResponse

IdleManager ==
    /\ env = [n \in EnvNames |-> "undefined"]
    /\ constructed = FALSE
    /\ providers = << >>
    /\ activeJobs = << >>
    /\ jobs = << >>
    /\ calls = << >>

----------------------------------------------------------------------------
(* Citation extraction: PerplexityProvider.extractCitations and            *)
(* AzureOpenAISearchProvider.transformResponse                             *)

\* Characters of a response text.  "U" stands for the prefix "https://",
\* "1" for a digit, "a" for a letter.
Alphabet == {"U", "[", "1", "]", "a", " ", ")"}

Undefined == << "undefined" >>

\* content.match(/\[\d+\]/g): the matches, left to right, non-overlapping
RECURSIVE DigitsEnd(_, _)
DigitsEnd(c, i) ==
    \* last index of the run of digits that starts at i (i - 1 if none)
    IF i <= Len(c) /\ c[i] = "1" THEN DigitsEnd(c, i + 1) ELSE i - 1

RECURSIVE MatchNumbered(_, _)
MatchNumbered(c, i) ==
    IF i > Len(c) THEN << >>
    ELSE IF c[i] = "["
         THEN LET e == DigitsEnd(c, i + 1)
              IN  IF e >= i + 1 /\ e + 1 <= Len(c) /\ c[e + 1] = "]"
                  THEN << SubSeq(c, i, e + 1) >> \o MatchNumbered(c, e + 2)
                  ELSE MatchNumbered(c, i + 1)
         ELSE MatchNumbered(c, i + 1)

\* content.match(/https?:\/\/[^\s\)]+/g)
RECURSIVE UrlEnd(_, _)
UrlEnd(c, i) ==
    IF i <= Len(c) /\ c[i] \notin {" ", ")"} THEN UrlEnd(c, i + 1) ELSE i - 1

RECURSIVE MatchUrls(_, _)
MatchUrls(c, i) ==
    IF i > Len(c) THEN << >>
    ELSE IF c[i] = "U"
         THEN LET e == UrlEnd(c, i + 1)
              IN  IF e >= i + 1
                  THEN << SubSeq(c, i, e) >> \o MatchUrls(c, e + 1)
                  ELSE MatchUrls(c, i + 1)
         ELSE MatchUrls(c, i + 1)

\* [...new Set(xs)]: first occurrences, in order
RECURSIVE Dedup(_)
Dedup(xs) ==
    IF xs = << >> THEN << >>
    ELSE LET init == Dedup(SubSeq(xs, 1, Len(xs) - 1))
             last == xs[Len(xs)]
         IN  IF last \in Range(init) THEN init ELSE Append(init, last)

ExtractCitations(c) == Dedup(MatchNumbered(c, 1) \o MatchUrls(c, 1))

\* a || b on strings kept as character sequences
OrStr(a, b) == IF a = Undefined \/ a = << >> THEN b ELSE a

RawUrls == {Undefined, << >>, << "a" >>, << "U", "a" >>}
RawFilepaths == {Undefined, << "a" >>}
RawCitationValues == [url : RawUrls, filepath : RawFilepaths]

\* citations.map(...) of transformResponse
ToAnnotation(citation) ==
    [url |-> OrStr(citation.url, << >>),
     filepath |-> OrStr(citation.filepath, << >>),
     source |-> OrStr(citation.url, OrStr(citation.filepath, << "Unknown source" >>))]

Annotations(raw) == [i \in 1..Len(raw) |-> ToAnnotation(raw[i])]

\* PerplexityProvider.transformResponse
TransformPerplexity ==
    /\ extractor = "perplexity"
    /\ cpc = "raw"
    /\ citations' = ExtractCitations(content)
    /\ cpc' = "done"
    /\ UNCHANGED <<extractor, content, rawCitations, annotations, mgrVars, adVars, foldVars, clientVars, viewVars>>

\* AzureOpenAISearchProvider.transformResponse
TransformAzure ==
    /\ extractor = "azure-openai-search"
    /\ cpc = "raw"
    /\ annotations' = Annotations(rawCitations)
    /\ cpc' = "done"
    /\ UNCHANGED <<extractor, content, rawCitations, citations, mgrVars, adVars, foldVars, clientVars, viewVars>>

IdleCitations ==
    /\ extractor = "none"
    /\ content = << >>
    /\ rawCitations = << >>
    /\ cpc = "idle"
    /\ citations = << >>
    /\ annotations = << >>

----------------------------------------------------------------------------
(* analyzeBrandMentions and calculateCumulativeAnalytics *)

\* keys of providerStats; the query result stores Google under "googleAI"
ProviderKeys == << "chatgpt", "google", "perplexity" >>
ProviderSet == Range(ProviderKeys)

\* One provider's part of a query result.  The response text is kept as what
\* the analysis reads from it: whether it is empty, how often it names the
\* brand, whether it contains the brand domain.  A citation is kept as
\* whether its url contains the brand domain ("brand") or not ("other").
Absent == [present |-> FALSE, empty |-> TRUE, mentions |-> 0, hasDomain |-> FALSE,
           cits |-> << >>]
Answer(m, hd, cs) == [present |-> TRUE, empty |-> FALSE, mentions |-> m,
                      hasDomain |-> hd, cits |-> cs]

\* no answer; an answer citing an unrelated page; an answer naming the brand
\* and its domain without citing anything; an answer citing the brand's site
ProviderInputs ==
    { Absent,
      Answer(0, FALSE, << "other" >>),
      Answer(1, TRUE, << >>),
      Answer(0, FALSE, << "brand" >>) }

QueryInputs == [ProviderSet -> ProviderInputs]

\* countDomainCitations
CountDomainCitations(cs) == Cardinality({k \in 1..Len(cs) : cs[k] = "brand"})

\* countBrandMentions / isBrandMentioned / isDomainCited return 0 / false on
\* an empty text
CountBrandMentions(r) == IF r.empty THEN 0 ELSE r.mentions
IsBrandMentioned(r) == ~r.empty /\ r.mentions > 0
IsDomainCited(r) == ~r.empty /\ r.hasDomain

\* which providers analyzeBrandMentions puts in results: ChatGPT and
\* Perplexity need a non-empty response, Google only needs to be present
Analysed(p, r) == r.present /\ (p = "google" \/ ~r.empty)

AnalyzeProvider(r) ==
    [brandMentioned |-> IsBrandMentioned(r),
     domainCited |-> IsDomainCited(r),
     citationCount |-> Len(r.cits),
     brandMentionCount |-> CountBrandMentions(r),
     domainCitationCount |-> CountDomainCitations(r.cits)]

RECURSIVE SumOver(_, _)
SumOver(S, f) ==
    IF S = {} THEN 0
    ELSE LET x == CHOOSE y \in S : TRUE IN f[x] + SumOver(S \ {x}, f)

AnalyzeBrandMentions(q) ==
    LET keys == {p \in ProviderSet : Analysed(p, q[p])}
        res  == [p \in keys |-> AnalyzeProvider(q[p])]
    IN  [results |-> res,
         totals |->
           [totalCitations |-> SumOver(keys, [p \in keys |-> res[p].citationCount]),
            totalBrandMentions |-> SumOver(keys, [p \in keys |-> res[p].brandMentionCount]),
            totalDomainCitations |-> SumOver(keys, [p \in keys |-> res[p].domainCitationCount]),
            providersWithBrandMention |-> Cardinality({p \in keys : res[p].brandMentioned}),
            providersWithDomainCitation |-> Cardinality({p \in keys : res[p].domainCited})]]

ZeroStats == [queriesProcessed |-> 0, brandMentions |-> 0, citations |-> 0,
              domainCitations |-> 0]

ZeroAcc == [providerStats |-> [p \in ProviderSet |-> ZeroStats],
            totalBrandMentions |-> 0, totalCitations |-> 0,
            totalDomainCitations |-> 0, totalProvidersWithBrandMentions |-> 0,
            totalProviders |-> 0]

\* variant: one provider counted per query result
CountedOncePerQuery(a) == 1

\* Object.keys(analysis.results).length
CountedProviders(a) == Cardinality(DOMAIN a.results)

\* the body of queryResults.forEach
Accumulate(acc, q) ==
    LET a == AnalyzeBrandMentions(q)
    IN  [providerStats |->
            [p \in ProviderSet |->
               IF p \in DOMAIN a.results
               THEN [queriesProcessed |-> acc.providerStats[p].queriesProcessed + 1,
                     brandMentions |-> acc.providerStats[p].brandMentions
                                       + a.results[p].brandMentionCount,
                     citations |-> acc.providerStats[p].citations
                                   + a.results[p].citationCount,
                     domainCitations |-> acc.providerStats[p].domainCitations
                                         + a.results[p].domainCitationCount]
               ELSE acc.providerStats[p]],
         totalBrandMentions |-> acc.totalBrandMentions + a.totals.totalBrandMentions,
         totalCitations |-> acc.totalCitations + a.totals.totalCitations,
         totalDomainCitations |-> acc.totalDomainCitations + a.totals.totalDomainCitations,
         totalProvidersWithBrandMentions |->
            acc.totalProvidersWithBrandMentions + a.totals.providersWithBrandMention,
         totalProviders |-> acc.totalProviders + CountedProviders(a)]

RECURSIVE FoldQueries(_, _)
FoldQueries(acc, qs) ==
    IF qs = << >> THEN acc ELSE FoldQueries(Accumulate(acc, Head(qs)), Tail(qs))

\* one entry of providerRankings; the ratio domainCitations / citations is
\* kept as the fraction num / den (0 / 1 when there is no citation)
RankingEntry(p, st) ==
    [provider |-> p, brandMentions |-> st.brandMentions,
     num |-> IF st.citations > 0 THEN st.domainCitations ELSE 0,
     den |-> IF st.citations > 0 THEN st.citations ELSE 1,
     totalCitations |-> st.citations, domainCitations |-> st.domainCitations]

Abs(x) == IF x < 0 THEN -x ELSE x

\* Math.abs(a.ratio - b.ratio) > 0.001
RatiosDiffer(a, b) == 1000 * Abs(a.num * b.den - b.num * a.den) > a.den * b.den

\* Math.abs(a.ratio - b.ratio) < 0.001
RatiosClose(a, b) == 1000 * Abs(a.num * b.den - b.num * a.den) < a.den * b.den

\* variant: the domain-citation ratio compared before the brand mentions
CompareRatioFirst(a, b) ==
    IF RatiosDiffer(a, b) THEN b.num * a.den - a.num * b.den
    ELSE IF a.brandMentions # b.brandMentions THEN b.brandMentions - a.brandMentions
    ELSE b.totalCitations - a.totalCitations

\* the comparator of providerRankings.sort: negative when a goes first
Compare(a, b) ==
    IF a.brandMentions # b.brandMentions THEN b.brandMentions - a.brandMentions
    ELSE IF RatiosDiffer(a, b) THEN b.num * a.den - a.num * b.den
    ELSE b.totalCitations - a.totalCitations

\* Array.prototype.sort is stable: an element goes behind every element that
\* does not compare greater than it
InsertSorted(sorted, x) ==
    LET after == {k \in 1..Len(sorted) : Compare(sorted[k], x) > 0}
        pos   == IF after = {} THEN Len(sorted) + 1
                 ELSE CHOOSE k \in after : \A m \in after : k <= m
    IN  SubSeq(sorted, 1, pos - 1) \o << x >> \o SubSeq(sorted, pos, Len(sorted))

RECURSIVE StableSort(_)
StableSort(xs) ==
    IF xs = << >> THEN << >>
    ELSE InsertSorted(StableSort(SubSeq(xs, 1, Len(xs) - 1)), xs[Len(xs)])

\* Object.entries(providerStats).filter(queriesProcessed > 0).map(...)
ProviderRankings(stats) ==
    LET F[i \in 0..Len(ProviderKeys)] ==
            IF i = 0 THEN << >>
            ELSE IF stats[ProviderKeys[i]].queriesProcessed > 0
                 THEN Append(F[i-1], RankingEntry(ProviderKeys[i], stats[ProviderKeys[i]]))
                 ELSE F[i-1]
    IN  F[Len(ProviderKeys)]

HasPerformance(e) == e.brandMentions > 0 \/ e.domainCitations > 0

\* tiedProviders.map(p => p.provider).join(' & '), as the list of its pieces
RECURSIVE JoinNames(_)
JoinNames(es) ==
    IF Len(es) = 0 THEN << >>
    ELSE IF Len(es) = 1 THEN << es[1].provider >>
    ELSE << es[1].provider, " & " >> \o JoinNames(Tail(es))

NoTop == [topPerformingProvider |-> << "none" >>, topProviders |-> << >>]

\* variant: the ranking without the two sentinel checks
TopPerformersUnguarded(acc) ==
    LET ranked == StableSort(ProviderRankings(acc.providerStats))
    IN  IF Len(ranked) = 0 THEN NoTop
        ELSE [topPerformingProvider |-> << ranked[1].provider >>,
              topProviders |-> << ranked[1].provider >>]

\* lines 425-495: topPerformingProvider and topProviders
TopPerformers(acc) ==
    IF ~(acc.totalBrandMentions > 0 \/ acc.totalDomainCitations > 0) THEN NoTop
    ELSE LET ranked == StableSort(ProviderRankings(acc.providerStats))
         IN  IF Len(ranked) = 0 THEN NoTop
             ELSE IF ~HasPerformance(ranked[1]) THEN NoTop
             ELSE LET tied == SelectSeq(ranked, LAMBDA p :
                                 /\ p.brandMentions = ranked[1].brandMentions
                                 /\ RatiosClose(p, ranked[1])
                                 /\ HasPerformance(p))
                  IN  IF Len(tied) > 1
                      THEN [topPerformingProvider |-> JoinNames(tied),
                            topProviders |-> [k \in 1..Len(tied) |-> tied[k].provider]]
                      ELSE [topPerformingProvider |-> << ranked[1].provider >>,
                            topProviders |-> << ranked[1].provider >>]

\* lines 521-545: insights.providerRankingDetails, the rank of every provider
\* that processed a query
ProviderRankingDetails(stats) ==
    LET ranked == StableSort(ProviderRankings(stats))
    IN  [p \in {ranked[k].provider : k \in 1..Len(ranked)} |->
            LET k == CHOOSE i \in 1..Len(ranked) : ranked[i].provider = p
            IN  [rank |-> k, brandMentions |-> ranked[k].brandMentions,
                 totalCitations |-> ranked[k].totalCitations]]

\* Math.round(x * 100) / 100 of the percentage a / b, in hundredths
RoundedPercent(a, b) == IF b > 0 THEN (2 * 10000 * a + b) \div (2 * b) ELSE 0

CalculateCumulativeAnalytics(qs) ==
    LET acc == FoldQueries(ZeroAcc, qs)
        top == TopPerformers(acc)
    IN  [totalQueriesProcessed |-> Len(qs),
         totalBrandMentions |-> acc.totalBrandMentions,
         brandVisibilityScore |->
            RoundedPercent(acc.totalProvidersWithBrandMentions, acc.totalProviders),
         totalCitations |-> acc.totalCitations,
         totalDomainCitations |-> acc.totalDomainCitations,
         providerStats |-> acc.providerStats,
         topPerformingProvider |-> top.topPerformingProvider,
         topProviders |-> top.topProviders,
         providerRankingDetails |-> ProviderRankingDetails(acc.providerStats)]

NoAnalytics == CalculateCumulativeAnalytics(<< >>)

Calculate ==
    /\ fpc = "input"
    /\ analyses' = [k \in 1..Len(queryResults) |-> AnalyzeBrandMentions(queryResults[k])]
    /\ analytics' = CalculateCumulativeAnalytics(queryResults)
    /\ fpc' = "done"
    /\ UNCHANGED <<queryResults, mgrVars, adVars, citVars, clientVars, viewVars>>

IdleFold ==
    /\ queryResults = << >>
    /\ fpc = "idle"
    /\ analyses = << >>
    /\ analytics = NoAnalytics

----------------------------------------------------------------------------
(* updateBrandWithQueryResults and the brand document *)

MaxStoredResults == 50

\* the callers that can write the same brand document: two open pages
Writers == {"page1", "page2"}

\* One QueryProcessingResult: its processingSessionId, its date (a clock
\* reading) and its provider responses, kept as "short" (at most 10000
\* characters), "long" (more) or "cut" (10000 characters and the suffix
\* '...[truncated]').
StoredEntry(s, d, r) == [session |-> s, date |-> d, resp |-> r]

\* lines 164-193: a response of more than 10000 characters keeps its first
\* 10000 and gets the suffix; cutting a cut response gives the same text
Truncate(e) == [e EXCEPT !.resp = IF @ = "short" THEN "short" ELSE "cut"]

\* queryResults[0]?.processingSessionId
CurrentSessionId(R) == IF Len(R) > 0 THEN R[1].session ELSE "undefined"

\* variant: the entries of the session are kept
KeepSession(existing, sid) == existing

\* lines 144-151
RemoveSession(existing, sid) ==
    IF sid # "undefined"
    THEN SelectSeq(existing, LAMBDA e : e.session # sid)
    ELSE existing

\* allResults.sort((a, b) => date(b) - date(a)): the sort is stable, so the
\* result is, for each date from the latest to the earliest, the entries of
\* that date in the order they had
RECURSIVE LatestFirst(_, _)
LatestFirst(xs, dates) ==
    IF dates = {} THEN << >>
    ELSE LET d == CHOOSE x \in dates : \A y \in dates : y <= x
         IN  SelectSeq(xs, LAMBDA e : e.date = d) \o LatestFirst(xs, dates \ {d})

SortByDate(xs) == LatestFirst(xs, {xs[k].date : k \in 1..Len(xs)})

\* variant: no limit
SliceAll(xs) == xs

\* .slice(0, MAX_STORED_RESULTS)
Slice(xs) ==
    SubSeq(xs, 1, IF Len(xs) < MaxStoredResults THEN Len(xs) ELSE MaxStoredResults)

\* lines 141-193: what the call writes, from what it read and its argument
UpdateResult(existing, R) ==
    LET allResults == RemoveSession(existing, CurrentSessionId(R)) \o R
        limited    == Slice(SortByDate(allResults))
    IN  [k \in 1..Len(limited) |-> Truncate(limited[k])]

\* an invocation: where it is, its argument, what getDoc returned, what it
\* hands to setDoc, the error it returns; readAt and wroteAt are the numbers
\* of finished invocations when its getDoc and its setDoc resolved
NoUpdate == [pc |-> "idle", arg |-> << >>, read |-> << >>, payload |-> << >>,
             error |-> FALSE, readAt |-> 0, wroteAt |-> 0]

\* updateBrandWithQueryResults(brandId, R) runs up to "await getDoc"
UpdateStart(w, R) ==
    /\ upd[w].pc = "idle"
    /\ upd' = [upd EXCEPT ![w] = [NoUpdate EXCEPT !.pc = "getDoc", !.arg = R]]

\* a page calls updateBrandWithQueryResults(brandId, R)
UpdateCall(w, R) ==
    /\ Len(updLog) + Cardinality({v \in Writers : upd[v].pc # "idle"}) < MaxUpdates
    /\ UpdateStart(w, R)
    /\ UNCHANGED <<history, updLog, runVars, serverVars, viewVars>>

\* getDoc resolves; the call runs up to "await setDoc"
GetDocOk(w) ==
    /\ upd[w].pc = "getDoc"
    /\ upd' = [upd EXCEPT ![w].pc = "setDoc",
                          ![w].read = history,
                          ![w].payload = UpdateResult(history, upd[w].arg),
                          ![w].readAt = Len(updLog)]
    /\ UNCHANGED <<history, updLog, runVars, serverVars, viewVars>>

\* getDoc rejects: the catch block
GetDocFail(w) ==
    /\ upd[w].pc = "getDoc"
    /\ upd' = [upd EXCEPT ![w].pc = "done", ![w].error = TRUE]
    /\ updLog' = Append(updLog, [arg |-> upd[w].arg, landed |-> FALSE])
    /\ UNCHANGED <<history, runVars, serverVars, viewVars>>

\* variant: the write is computed from the document as it is when it lands
LandingFresh(w) == UpdateResult(history, upd[w].arg)

\* lines 196-200: the document gets what the call computed after its read
Landing(w) == upd[w].payload

\* setDoc resolves
SetDocOk(w) ==
    /\ upd[w].pc = "setDoc"
    /\ history' = Landing(w)
    /\ updLog' = Append(updLog, [arg |-> upd[w].arg, landed |-> TRUE])
    /\ upd' = [upd EXCEPT ![w].pc = "done", ![w].wroteAt = Len(updLog) + 1]
    /\ UNCHANGED <<runVars, serverVars, viewVars>>

\* setDoc rejects: the catch block
SetDocFail(w) ==
    /\ upd[w].pc = "setDoc"
    /\ upd' = [upd EXCEPT ![w].pc = "done", ![w].error = TRUE]
    /\ updLog' = Append(updLog, [arg |-> upd[w].arg, landed |-> FALSE])
    /\ UNCHANGED <<history, runVars, serverVars, viewVars>>

\* return { error }
UpdateReturn(w) ==
    /\ upd[w].pc = "done"
    /\ upd' = [upd EXCEPT ![w] = NoUpdate]
    /\ UNCHANGED <<history, updLog, runVars, serverVars, viewVars>>

IdleStore ==
    /\ history = << >>
    /\ upd = [w \in Writers |-> NoUpdate]
    /\ updLog = << >>

----------------------------------------------------------------------------
(* The process-queries component: handleProcessQueries, handleStopProcessing *)

CreditsPerQuery == 10

\* the page the component runs in
ThisPage == "page1"

\* processingSessionId of the k-th run: unique per run
SessionNames == << "s1", "s2", "s3", "s4" >>

\* how the fetch of /api/user-query ends: a 2xx answer, a rejected fetch, a
\* non-2xx answer whose JSON body carries the code INSUFFICIENT_CREDITS or
\* AUTHENTICATION_REQUIRED
FetchOutcomes == {"ok", "network", "credits", "auth"}

\* The message of the error that reaches "catch (queryError)".  The errors
\* thrown at lines 140-144 are thrown inside the try of line 137, so the
\* catch of line 146 replaces each of them by the one of line 147.
ErrorMessage(o) ==
    IF o = "network" THEN "Network error" ELSE "Failed to process query"

\* lines 260-262
StopsRun(msg) == msg \in {"Insufficient credits", "Authentication failed"}

NoRun == [pc |-> "idle", session |-> "none", n |-> 0, qi |-> 0,
          allResults |-> << >>, processedCount |-> 0]

\* variant: the loop does not look at the flag
CancelIgnored == FALSE

\* line 101
CancelCheck == cancelledRef

\* variant: a cancelled run hands over nothing
DeliveredUnlessCancelled(r) == IF cancelledRef THEN << >> ELSE r.allResults

\* line 286
Delivered(r) == r.allResults

\* lines 282-294
Completion(r) ==
    [success |-> ~cancelledRef, cancelled |-> cancelledRef,
     queryResults |-> Delivered(r), session |-> r.session,
     summary |-> [totalQueries |-> r.n,
                  processedQueries |-> r.processedCount,
                  totalErrors |-> r.n - r.processedCount,
                  creditsUsed |-> r.processedCount * CreditsPerQuery]]

\* finally: lines 313-314
Finally ==
    /\ run' = NoRun
    /\ processing' = FALSE
    /\ cancelledRef' = FALSE

\* The head of the for loop with r the locals and log the calls so far: the next query's fetch
\* starts, or the loop is left (no query remains, or line 103) and lines
\* 272-300 and the finally block run.
LoopTop(r, log) ==
    IF r.qi < r.n /\ ~CancelCheck
    THEN /\ run' = [r EXCEPT !.pc = "fetch", !.qi = r.qi + 1]
         /\ apiCalls' = Append(log, [session |-> r.session, query |-> r.qi + 1,
                                    outcome |-> "pending"])
         /\ UNCHANGED <<processing, status, cancelledRef, timers, completions>>
    ELSE /\ status' = IF cancelledRef THEN "cancelled" ELSE "success"
         /\ completions' = Append(completions, Completion(r))
         /\ timers' = timers + 1
         /\ Finally
         /\ apiCalls' = log

\* a click on the process button: lines 36-81, up to the await of the token
ClickProcess(n) ==
    /\ ~processing
    /\ runs' = runs + 1
    /\ IF n = 0
       THEN /\ status' = "error"
            /\ UNCHANGED <<run, processing, cancelledRef>>
       ELSE /\ processing' = TRUE
            /\ status' = "processing"
            /\ cancelledRef' = FALSE
            /\ run' = [NoRun EXCEPT !.pc = "token", !.n = n]
    /\ UNCHANGED <<timers, clock, apiCalls, completions, saveErrors, stops,
                   storeVars, serverVars, viewVars>>

\* the token arrives: lines 83-104
TokenOk ==
    /\ run.pc = "token"
    /\ LoopTop([run EXCEPT !.session = SessionNames[runs]], apiCalls)
    /\ UNCHANGED <<runs, clock, saveErrors, stops, storeVars, serverVars, viewVars>>

\* no token: line 84, the outer catch and the finally block
TokenFail ==
    /\ run.pc = "token"
    /\ status' = "error"
    /\ timers' = timers + 1
    /\ Finally
    /\ UNCHANGED <<runs, clock, apiCalls, completions, saveErrors, stops,
                   storeVars, serverVars, viewVars>>

\* the log keeps how the call ended
SetOutcome(o) == [apiCalls EXCEPT ![Len(apiCalls)].outcome = o]

\* variant: after a failed save the result just collected is dropped
KeptUnlessSaveFailed(r, failed) ==
    IF failed THEN SubSeq(r.allResults, 1, Len(r.allResults) - 1) ELSE r.allResults

\* lines 247-251: the results in memory after the save returned
KeptAfterSave(r, failed) == r.allResults

\* a 2xx answer: lines 151-245, up to the await inside
\* updateBrandWithQueryResults
FetchOk ==
    /\ run.pc = "fetch"
    /\ upd[ThisPage].pc = "idle"
    /\ LET result == StoredEntry(run.session, clock, "short")
           r == [run EXCEPT !.pc = "save",
                            !.allResults = Append(@, result),
                            !.processedCount = @ + 1]
       IN  /\ run' = r
           /\ UpdateStart(ThisPage, r.allResults)
    /\ clock' = clock + 1
    /\ apiCalls' = SetOutcome("ok")
    /\ UNCHANGED <<processing, status, cancelledRef, timers, runs, completions,
                   saveErrors, stops, history, updLog, serverVars, viewVars>>

\* the fetch rejects or answers non-2xx: lines 125-149 and 256-270
FetchFail(o) ==
    /\ run.pc = "fetch"
    /\ o # "ok"
    /\ IF StopsRun(ErrorMessage(o))
       THEN /\ status' = "error"
            /\ Finally
            /\ apiCalls' = SetOutcome(o)
            /\ UNCHANGED <<timers, completions>>
       ELSE /\ LoopTop([run EXCEPT !.processedCount = @ + 1], SetOutcome(o))
    /\ UNCHANGED <<runs, clock, saveErrors, stops, storeVars, serverVars, viewVars>>

\* updateBrandWithQueryResults returned: lines 247-254, up to the delay
SaveReturned ==
    /\ run.pc = "save"
    /\ upd[ThisPage].pc = "done"
    /\ saveErrors' = IF upd[ThisPage].error THEN saveErrors + 1 ELSE saveErrors
    /\ run' = [run EXCEPT !.pc = "delay",
                          !.allResults = KeptAfterSave(run, upd[ThisPage].error)]
    /\ upd' = [upd EXCEPT ![ThisPage] = NoUpdate]
    /\ UNCHANGED <<processing, status, cancelledRef, timers, runs, clock, apiCalls,
                   completions, stops, history, updLog, serverVars, viewVars>>

\* the one-second delay is over
DelayDone ==
    /\ run.pc = "delay"
    /\ LoopTop(run, apiCalls)
    /\ UNCHANGED <<runs, clock, saveErrors, stops, storeVars, serverVars, viewVars>>

\* handleStopProcessing; the stop button is rendered while processing is
\* true and the flag was not set at the last render
StopClick ==
    /\ processing
    /\ ~cancelledRef
    /\ cancelledRef' = TRUE
    /\ stops' = Append(stops, [session |-> run.session, pc |-> run.pc, qi |-> run.qi])
    /\ UNCHANGED <<run, processing, status, timers, runs, clock, apiCalls,
                   completions, saveErrors, storeVars, serverVars, viewVars>>

\* a status-reset timer fires: lines 297-300 and 308-311
TimerFires ==
    /\ timers > 0
    /\ timers' = timers - 1
    /\ status' = "idle"
    /\ UNCHANGED <<run, processing, cancelledRef, runs, clock, apiCalls,
                   completions, saveErrors, stops, storeVars, serverVars, viewVars>>

IdleRun ==
    /\ run = NoRun
    /\ processing = FALSE
    /\ status = "idle"
    /\ cancelledRef = FALSE
    /\ timers = 0
    /\ runs = 0
    /\ clock = 1
    /\ apiCalls = << >>
    /\ completions = << >>
    /\ saveErrors = 0
    /\ stops = << >>

IdleClient == IdleStore /\ IdleRun

----------------------------------------------------------------------------
(* calculateLifetimeBrandAnalytics *)

\* a stored query result: its processingSessionId, the query it answers, its
\* date and the providers' answers
LifeResult(s, q, d, a) == [session |-> s, query |-> q, date |-> d, answers |-> a]

OnlyChatGPT(a) == [p \in ProviderSet |-> IF p = "chatgpt" THEN a ELSE Absent]

\* ChatGPT names the brand / ChatGPT cites an unrelated page
Mentioning == OnlyChatGPT(Answer(1, TRUE, << >>))
Citing == OnlyChatGPT(Answer(0, FALSE, << "other" >>))

\* queryProcessingResults of the Firestore brand document
BrandResultInputs ==
    { << >>,
      << LifeResult("session_1", "a", 1, Mentioning) >>,
      << LifeResult("legacy_q1", "b", 2, Citing) >>,
      << LifeResult("session_1", "a", 1, Mentioning),
         LifeResult("legacy_q1", "b", 2, Citing) >> }

\* queryProcessingResults of the copy in Cloud Storage: none, or the full list
StorageInputs ==
    { [present |-> FALSE, results |-> << >>],
      [present |-> TRUE,
       results |-> << LifeResult("session_0", "c", 0, Citing),
                      LifeResult("session_1", "a", 1, Mentioning) >>] }

\* a document of v8userqueries
LegacyQuery(id, st, d, a) == [id |-> id, status |-> st, date |-> d, answers |-> a]

NoAnswers == [p \in ProviderSet |-> Absent]

\* the documents of v8userqueries for the brand
LegacyInputs ==
    { << >>,
      << LegacyQuery("q1", "completed", 2, Citing) >>,
      << LegacyQuery("q1", "completed", 2, Citing),
         LegacyQuery("q2", "pending", 3, Mentioning),
         LegacyQuery("q3", "completed", 3, NoAnswers) >> }

\* line 636
LegacySession(id) == "legacy_" \o id

\* lines 644-667: the answer is stored under "response"; the fold reads
\* Google's text from "aiOverview", which the converted result does not have
ConvertResponse(p, a) ==
    IF ~a.present THEN Absent
    ELSE IF p = "google"
         THEN [present |-> TRUE, empty |-> TRUE, mentions |-> 0,
               hasDomain |-> FALSE, cits |-> << >>]
         ELSE a

HasResponses(q) == \E p \in ProviderSet : q.answers[p].present

\* lines 631-673
ConvertedResults(qs) ==
    LET kept == SelectSeq(qs, LAMBDA q : q.status = "completed" /\ HasResponses(q))
    IN  [k \in 1..Len(kept) |->
           LifeResult(LegacySession(kept[k].id), kept[k].id, kept[k].date,
                      [p \in ProviderSet |-> ConvertResponse(p, kept[k].answers[p])])]

SessionsOf(rs) == {rs[k].session : k \in 1..Len(rs)}

SetMin(S) == CHOOSE x \in S : \A y \in S : x <= y
SetMax(S) == CHOOSE x \in S : \A y \in S : x >= y

\* lines 688-714: what is returned when no query result was found
EmptyLifetime ==
    [totalQueriesProcessed |-> 0,
     totalProcessingSessions |-> 0,
     totalBrandMentions |-> 0,
     brandVisibilityScore |-> 0,
     totalCitations |-> 0,
     totalDomainCitations |-> 0,
     providerStats |-> [p \in ProviderSet |-> ZeroStats],
     topPerformingProvider |-> << "none" >>,
     topProviders |-> << >>,
     providerRankingDetails |-> [p \in {} |-> 0],
     firstQueryProcessed |-> -1,
     lastQueryProcessed |-> -1]

\* lines 716-759
LifetimeAnalytics(all, sessions) ==
    IF Len(all) = 0 THEN EmptyLifetime
    ELSE LET sessionAnalytics ==
                CalculateCumulativeAnalytics([k \in 1..Len(all) |-> all[k].answers])
             queryDates == {all[k].date : k \in 1..Len(all)}
         IN  [totalQueriesProcessed |-> Len(all),
              totalProcessingSessions |-> Cardinality(sessions),
              totalBrandMentions |-> sessionAnalytics.totalBrandMentions,
              brandVisibilityScore |-> sessionAnalytics.brandVisibilityScore,
              totalCitations |-> sessionAnalytics.totalCitations,
              totalDomainCitations |-> sessionAnalytics.totalDomainCitations,
              providerStats |-> sessionAnalytics.providerStats,
              topPerformingProvider |-> sessionAnalytics.topPerformingProvider,
              topProviders |-> sessionAnalytics.topProviders,
              providerRankingDetails |-> sessionAnalytics.providerRankingDetails,
              firstQueryProcessed |-> SetMin(queryDates),
              lastQueryProcessed |-> SetMax(queryDates)]

NoLife == [pc |-> "idle", brandResults |-> << >>, all |-> << >>, sessions |-> {},
           storage |-> "none", historical |-> "none"]

\* variant: the array of an earlier call is filled further
LeftoverResults(l) == l.all

\* line 611: every call collects into a new array
FreshResults(l) == << >>

\* a call starts: lines 577-582, up to the await of getBrandInfo
LifeStart ==
    /\ life.pc \in {"idle", "done"}
    /\ Len(lifeLog) < MaxFolds
    /\ life' = [NoLife EXCEPT !.pc = "brand", !.all = FreshResults(life)]
    /\ UNCHANGED <<sources, lifeLog, hookVars, clientVars, serverVars>>

\* lines 615-628 with rs the brand's queryProcessingResults: up to the await
\* of getQueriesByBrand
GatherBrand(l, rs) ==
    [l EXCEPT !.pc = "historical",
              !.brandResults = rs,
              !.all = l.all \o rs,
              !.sessions = SessionsOf(rs)]

\* the call returns out
LifeReturn(l, out) ==
    /\ life' = [l EXCEPT !.pc = "done"]
    /\ lifeLog' = Append(lifeLog, [error |-> out.error, result |-> out.result,
                                   storage |-> l.storage,
                                   historical |-> l.historical,
                                   all |-> l.all])

\* getBrandInfo returns the brand document: lines 582-607
BrandFound ==
    /\ life.pc = "brand"
    /\ sources.brand.exists
    /\ life' = IF sources.brand.storageReferences
               THEN [life EXCEPT !.pc = "storage",
                                 !.brandResults = sources.brand.results]
               ELSE GatherBrand(life, sources.brand.results)
    /\ UNCHANGED <<sources, lifeLog, hookVars, clientVars, serverVars>>

\* getBrandInfo returns null (lines 583-585) or throws (lines 770-773)
BrandMissing(o) ==
    /\ life.pc = "brand"
    /\ o \in {"null", "throws"}
    /\ o = "null" => ~sources.brand.exists
    /\ LifeReturn(life, [error |-> IF o = "null" THEN "Brand not found" ELSE "thrown",
                         result |-> EmptyLifetime])
    /\ UNCHANGED <<sources, hookVars, clientVars, serverVars>>

\* retrieveDocumentWithLargeData returns or throws: lines 591-628
StorageReturns(o) ==
    /\ life.pc = "storage"
    /\ o \in {"ok", "throws"}
    /\ LET full == IF o = "ok" /\ sources.storage.present
                   THEN sources.storage.results ELSE life.brandResults
       IN  life' = GatherBrand([life EXCEPT !.storage = o], full)
    /\ UNCHANGED <<sources, lifeLog, hookVars, clientVars, serverVars>>

\* variant: a lookup that throws aborts the call
AbortOnFailure(l, o) ==
    IF o = "throws" THEN [error |-> "thrown", result |-> EmptyLifetime]
    ELSE [error |-> "none", result |-> LifetimeAnalytics(l.all, l.sessions)]

\* lines 674-768: the catch of line 674 only logs, and the fold of what was
\* collected is returned
FoldOutcome(l, o) == [error |-> "none", result |-> LifetimeAnalytics(l.all, l.sessions)]

\* getQueriesByBrand returns the documents, returns an error or throws:
\* lines 628-768
HistoricalReturns(o) ==
    /\ life.pc = "historical"
    /\ o \in {"result", "error", "throws"}
    /\ LET converted == IF o = "result" THEN ConvertedResults(sources.legacy) ELSE << >>
           l == [life EXCEPT !.historical = o,
                             !.all = life.all \o converted,
                             !.sessions = life.sessions \union SessionsOf(converted)]
       IN  LifeReturn(l, FoldOutcome(l, o))
    /\ UNCHANGED <<sources, hookVars, clientVars, serverVars>>

IdleLife ==
    /\ sources = [brand |-> [exists |-> FALSE, storageReferences |-> FALSE,
                             results |-> << >>],
                  storage |-> [present |-> FALSE, results |-> << >>],
                  legacy |-> << >>]
    /\ life = NoLife
    /\ lifeLog = << >>

----------------------------------------------------------------------------
(* useLatestBrandAnalytics and useLifetimeBrandAnalytics *)

Kinds == {"latest", "lifetime"}

Brands == {"A", "B"}

\* the analytics in state are kept as the brand they were computed for
NoHook == [analytics |-> "null", loading |-> TRUE, error |-> FALSE]

\* lines 23-27 and 128-132: the effect for an undefined brandId
EffectUndefined(h) == [h EXCEPT !.analytics = "null", !.loading = FALSE]

\* lines 29-31 and 134-136: the effect for a brandId, up to its first await
EffectStart(h) == [h EXCEPT !.loading = TRUE, !.error = FALSE]

\* the brandId prop changes to b; the component renders and the effect of
\* each hook runs (lines 21-112 and 126-171, dependency [brandId])
ChangeBrand(b) ==
    /\ b # brandId
    /\ b \in Brands => Len(fetches) < 2 * MaxBrandChanges
    /\ brandId' = b
    /\ IF b = "undefined"
       THEN /\ hook' = [k \in Kinds |-> EffectUndefined(hook[k])]
            /\ UNCHANGED fetches
       ELSE /\ hook' = [k \in Kinds |-> EffectStart(hook[k])]
            /\ fetches' = fetches \o << [kind |-> "latest", brand |-> b, pc |-> "calc"],
                                       [kind |-> "lifetime", brand |-> b, pc |-> "calc"] >>
    /\ UNCHANGED <<lifeVars, clientVars, serverVars>>

\* what a fetch writes is written whatever the brandId prop is by now
SetState(h, f, new) == new

\* the fetch i ends and writes new into the state of its hook; the finally
\* block sets loading to false (lines 108-110 and 166-168)
FetchEnds(i, new) ==
    LET f == fetches[i]
    IN  /\ hook' = [hook EXCEPT ![f.kind] =
                       SetState(@, f, [new EXCEPT !.loading = FALSE])]
        /\ fetches' = [fetches EXCEPT ![i].pc = "done"]

\* calculateLifetimeBrandAnalytics settles: lines 34-51 and 138-146
CalcReturns(i, o) ==
    /\ i \in 1..Len(fetches)
    /\ fetches[i].pc = "calc"
    /\ o \in {"result", "error", "throws"}
    /\ LET f == fetches[i]
           h == hook[f.kind]
       IN  IF o = "result"
           THEN /\ fetches' = [fetches EXCEPT ![i].pc =
                                  IF f.kind = "latest" THEN "session" ELSE "save"]
                /\ UNCHANGED hook
           ELSE FetchEnds(i, IF f.kind = "latest"
                             THEN [h EXCEPT !.error = TRUE, !.analytics = "null"]
                             ELSE [h EXCEPT !.error = TRUE])
    /\ UNCHANGED <<brandId, lifeVars, clientVars, serverVars>>

\* calculateLatestSessionFromBrandDocument settles: lines 51-55 and 77-107
SessionReturns(i, o) ==
    /\ i \in 1..Len(fetches)
    /\ fetches[i].pc = "session"
    /\ o \in {"session", "none", "throws"}
    /\ LET f == fetches[i]
           h == hook[f.kind]
       IN  CASE o = "session" ->
                  /\ fetches' = [fetches EXCEPT ![i].pc = "save"]
                  /\ UNCHANGED hook
             [] o = "none" -> FetchEnds(i, [h EXCEPT !.analytics = f.brand])
             [] o = "throws" ->
                  FetchEnds(i, [h EXCEPT !.error = TRUE, !.analytics = "null"])
    /\ UNCHANGED <<brandId, lifeVars, clientVars, serverVars>>

\* the save of the analytics settles; a failed save is only logged:
\* lines 55-76 and 148-164
SaveReturns(i, o) ==
    /\ i \in 1..Len(fetches)
    /\ fetches[i].pc = "save"
    /\ o \in {"ok", "fails"}
    /\ FetchEnds(i, [hook[fetches[i].kind] EXCEPT !.analytics = fetches[i].brand])
    /\ UNCHANGED <<brandId, lifeVars, clientVars, serverVars>>

\* rendered with an undefined brandId, after the effects
IdleHooks ==
    /\ brandId = "undefined"
    /\ hook = [k \in Kinds |-> EffectUndefined(NoHook)]
    /\ fetches = << >>

IdleView == IdleLife /\ IdleHooks


----------------------------------------------------------------------------
(* Specifications *)

EnvOf(setNames) == [n \in EnvNames |-> IF n \in setNames THEN "key" ELSE "undefined"]

\* environments the request-level specification starts from
ManagerEnvs == { EnvOf({"PERPLEXITY_API_KEY"}) }

InitManager ==
    /\ env \in ManagerEnvs
    /\ constructed = TRUE
    /\ providers = InitializeProviders(GetProviderConfigs(env))
    /\ activeJobs = << >>
    /\ jobs = << >>
    /\ calls = << >>
    /\ IdleAdapter
    /\ IdleClient
    /\ IdleView
    /\ IdleCitations
    /\ IdleFold

NextManager ==
    \/ \E id \in RequestIds, ps \in SeqsUpTo(RequestNames, MaxProviders) :
          ExecuteRequest(id, ps)
    \/ \E j \in 1..Len(jobs) : \E i \in 1..Len(jobs[j].calls), o \in Outcomes :
          Settle(j, i, o)
    \/ \E j \in 1..Len(jobs) : JobComplete(j)
    \/ \E c \in 1..Len(calls) : CallerReturn(c)

SpecManager == InitManager /\ [][NextManager]_vars

\* The event loop runs every continuation that is ready; an adapter of
\* Stragglers may leave its execute promise pending for ever.
Stragglers == {"perplexity"}

FairSpecManager ==
    /\ SpecManager
    /\ WF_vars(\E j \in 1..Len(jobs) : JobComplete(j))
    /\ WF_vars(\E c \in 1..Len(calls) : CallerReturn(c))
    /\ WF_vars(\E j \in 1..Len(jobs) : \E i \in 1..Len(jobs[j].calls), o \in Outcomes :
                  Settle(j, i, o) /\ jobs[j].names[i] \notin Stragglers)

InitConfig ==
    /\ env \in [EnvNames -> EnvValues]
    /\ constructed = FALSE
    /\ providers = << >>
    /\ activeJobs = << >>
    /\ jobs = << >>
    /\ calls = << >>
    /\ IdleAdapter
    /\ IdleClient
    /\ IdleView
    /\ IdleCitations
    /\ IdleFold

NextConfig == Construct

SpecConfig == InitConfig /\ [][NextConfig]_vars

----------------------------------------------------------------------------
(* Properties of the ProviderManager *)

Jobs == 1..Len(jobs)
Calls == 1..Len(calls)
Slots(j) == 1..Len(jobs[j].calls)
InFlight(j) == ~jobs[j].done
SettledCall(j, i) == jobs[j].calls[i].state \in {"fulfilled", "rejected"}

\* C1: at most one job per request id is in flight, and every invocation of
\* executeRequest waiting on an in-flight job waits on the job registered in
\* activeJobs under its id (the callers share one JobResult; the adapters of
\* that id are dispatched once).
C1_DedupPerRequestId ==
    /\ \A j1, j2 \in Jobs :
          (InFlight(j1) /\ InFlight(j2) /\ jobs[j1].id = jobs[j2].id) => j1 = j2
    /\ \A c \in Calls :
          InFlight(calls[c].job) =>
             /\ HasActiveJob(calls[c].id)
             /\ activeJobs[calls[c].id] = calls[c].job
             /\ jobs[calls[c].job].id = calls[c].id

C1_Witness ==
    \E c1, c2 \in Calls :
       /\ c1 # c2
       /\ calls[c1].job = calls[c2].job
       /\ ~calls[c2].creator
       /\ InFlight(calls[c2].job)
       /\ \E i \in Slots(calls[c2].job) : jobs[calls[c2].job].calls[i].executed

\* C2: a finished job has exactly one result per target provider, in which
\* an adapter that threw is a status 'error' entry of cost 0 under its own
\* name and an adapter that answered appears with the answer it gave.
C2_BatchResilience ==
    \A j \in Jobs :
       jobs[j].done =>
          /\ Len(jobs[j].results) = Len(jobs[j].names)
          /\ \A i \in Slots(j) :
                /\ jobs[j].results[i].providerId = jobs[j].names[i]
                /\ jobs[j].calls[i].outcome = "throw" =>
                      /\ jobs[j].results[i].status = "error"
                      /\ jobs[j].results[i].cost = 0
                /\ jobs[j].calls[i].outcome = "success" =>
                      jobs[j].results[i] = AdapterResponse(jobs[j].names[i])

C2_Witness ==
    \E j \in Jobs :
       /\ jobs[j].done
       /\ \E i, k \in Slots(j) :
             /\ jobs[j].calls[i].outcome = "throw"
             /\ jobs[j].calls[k].outcome = "success"

\* C3: every invocation of executeRequest eventually returns, also when an
\* adapter call never settles.
C3_ReturnsDespiteStraggler ==
    \A c \in 1..MaxCalls :
       [](c \in Calls => <>(c \in Calls /\ calls[c].returned))

\* C4: every adapter call of a job is started when the job is created, and
\* the job's result exists only once every one of its calls has settled; a
\* caller returns only then.
C4_WaitForAll ==
    /\ \A j \in Jobs : \A i \in Slots(j) :
          /\ HasProvider(jobs[j].names[i]) => jobs[j].calls[i].executed
          /\ jobs[j].done => SettledCall(j, i)
    /\ \A c \in Calls : \A i \in Slots(calls[c].job) :
          calls[c].returned => SettledCall(calls[c].job, i)

\* a job that finished after one call had failed and a sibling settled later
C4_Witness ==
    \E j \in Jobs :
       /\ jobs[j].done
       /\ \E a, b \in 1..Len(jobs[j].order) :
             /\ a < b
             /\ jobs[j].calls[jobs[j].order[a]].outcome = "throw"
             /\ jobs[j].calls[jobs[j].order[b]].outcome = "success"

\* C5 (as claimed): the results of a finished job are in the order in which
\* its calls settled.
C5_ResultsInSettleOrder ==
    \A j \in Jobs :
       jobs[j].done =>
          \A k \in Slots(j) :
             jobs[j].results[k] = jobs[j].calls[jobs[j].order[k]].value

\* C5 (amended): the results of a finished job are in the order in which the
\* providers were requested, whatever the order in which the calls settled.
C5_ResultsInRequestOrder ==
    \A j \in Jobs :
       jobs[j].done =>
          \A k \in Slots(j) :
             /\ jobs[j].results[k] = jobs[j].calls[k].value
             /\ jobs[j].results[k].providerId = jobs[j].names[k]

\* a finished job whose later-requested provider settled first
C5_Witness ==
    \E j \in Jobs :
       /\ jobs[j].done
       /\ \E k \in Slots(j) :
             /\ jobs[j].order[k] # k
             /\ jobs[j].names[jobs[j].order[k]] # jobs[j].names[k]

\* C6: a target name that is not in the provider map is never executed and
\* yields the 'Provider not found' entry with responseTime 0 and cost 0; the
\* other targets of the job are executed.
C6_UnknownProvider ==
    \A j \in Jobs : \A i \in Slots(j) :
       /\ ~HasProvider(jobs[j].names[i]) =>
             /\ ~jobs[j].calls[i].executed
             /\ jobs[j].calls[i].outcome = "none"
             /\ jobs[j].done => jobs[j].results[i] = NotFound(jobs[j].names[i], jobs[j].id)
       /\ HasProvider(jobs[j].names[i]) => jobs[j].calls[i].executed

C6_Witness ==
    \E j \in Jobs :
       /\ jobs[j].done
       /\ \E i, k \in Slots(j) :
             /\ ~HasProvider(jobs[j].names[i])
             /\ jobs[j].results[i].error = "Provider not found"
             /\ jobs[j].calls[k].outcome = "success"

----------------------------------------------------------------------------
(* Specification and properties of an adapter *)

InitAdapter ==
    /\ IdleManager
    /\ IdleClient
    /\ IdleView
    /\ adapter \in Adapters
    /\ request \in Requests(adapter)
    /\ apc = "called"
    /\ rateLimitChecks = 0
    /\ networkCalls = 0
    /\ attempt = 0
    /\ response = NoResponse
    /\ IdleCitations
    /\ IdleFold

NextAdapter ==
    \/ ExecuteStart
    \/ RateLimitPassed
    \/ RateLimitRejected
    \/ NetworkSuccess
    \/ NetworkFailure

SpecAdapter == InitAdapter /\ [][NextAdapter]_vars

\* C7: when validateRequest returns false, execute resolves with the error
\* 'Invalid request format' and cost 0, and neither the rate-limit check nor
\* a network call is made.
C7_InvalidRequestRejected ==
    (adapter \in Adapters /\ ValidateRequest(adapter, request) = "false") =>
       /\ rateLimitChecks = 0
       /\ networkCalls = 0
       /\ apc \in {"called", "done"}
       /\ apc = "done" =>
             /\ response.status = "error"
             /\ response.error = "Invalid request format"
             /\ response.cost = 0

C7_Witness ==
    /\ adapter \in Adapters
    /\ ValidateRequest(adapter, request) = "false"
    /\ apc = "done"
    /\ response.status = "error"

----------------------------------------------------------------------------
(* Properties of the configuration *)

AdapterNames == {"azure-openai", "chatgptsearch", "perplexity",
                 "google-gemini", "google-ai-overview"}

\* the credentials an adapter needs are absent from the environment
CredentialsMissing(a, e) ==
    CASE a = "azure-openai"  -> ~Usable(e["AZURE_OPENAI_API_KEY"])
      [] a = "chatgptsearch" -> ~Usable(e["OPENAI_API_KEY"])
                                /\ ~Usable(e["CHATGPT_SEARCH_API_KEY"])
      [] a = "perplexity"    -> ~Usable(e["PERPLEXITY_API_KEY"])
      [] a = "google-gemini" -> ~Usable(e["GOOGLE_AI_API_KEY"])
                                /\ ~Usable(e["GEMINI_API_KEY"])
      [] OTHER               -> ~Usable(e["DATAFORSEO_USERNAME"])
                                \/ ~Usable(e["DATAFORSEO_PASSWORD"])

\* C8: once the manager is constructed, an adapter whose credentials are
\* missing is not among the available providers.
C8_MissingCredentialsOmitted ==
    constructed =>
       \A a \in AdapterNames :
          CredentialsMissing(a, env) => a \notin Range(GetAvailableProviders)

----------------------------------------------------------------------------
(* Specification and properties of the citation extraction *)

InitCitations ==
    /\ IdleManager
    /\ IdleAdapter
    /\ IdleClient
    /\ IdleView
    /\ extractor \in {"perplexity", "azure-openai-search"}
    /\ IF extractor = "perplexity"
       THEN /\ content \in SeqsUpTo(Alphabet, MaxContentLen)
            /\ rawCitations = << >>
       ELSE /\ content = << >>
            /\ rawCitations \in SeqsUpTo(RawCitationValues, MaxRawCitations)
    /\ cpc = "raw"
    /\ citations = << >>
    /\ annotations = << >>
    /\ IdleFold

NextCitations ==
    \/ TransformPerplexity
    \/ TransformAzure

SpecCitations == InitCitations /\ [][NextCitations]_vars

\* new URL(u) succeeds: u starts with the scheme and its host, which runs to
\* the next ':' or to the end, is not empty and holds no bracket
UrlParses(u) ==
    /\ Len(u) >= 2
    /\ u[1] = "U"
    /\ LET nextU == {k \in 2..Len(u) : u[k] = "U"}
           hostEnd == IF nextU = {} THEN Len(u)
                      ELSE (CHOOSE k \in nextU : \A m \in nextU : k <= m) - 1
       IN  \A k \in 2..hostEnd : u[k] \notin {"[", "]", " ", ")"}

\* C9: every citation the Perplexity adapter extracts, and every annotation
\* the Azure OpenAI Search adapter builds, carries a URL that parses.
C9_CitationUrlsParse ==
    cpc = "done" =>
       /\ \A k \in 1..Len(citations) : UrlParses(citations[k])
       /\ \A k \in 1..Len(annotations) : UrlParses(annotations[k].url)

----------------------------------------------------------------------------
(* Specification and properties of the analytics fold *)

InitFold ==
    /\ IdleManager
    /\ IdleAdapter
    /\ IdleClient
    /\ IdleView
    /\ IdleCitations
    /\ \E n \in 0..MaxQueries : queryResults \in [1..n -> QueryInputs]
    /\ fpc = "input"
    /\ analyses = << >>
    /\ analytics = NoAnalytics

NextFold == Calculate

SpecFold == InitFold /\ [][NextFold]_vars

\* C10: when every provider has accumulated zero brand mentions and zero
\* domain citations, topPerformingProvider is 'none' and topProviders is
\* empty, whatever the providers' other citations.
C10_RankingSentinel ==
    (fpc = "done"
     /\ \A p \in ProviderSet :
           /\ analytics.providerStats[p].brandMentions = 0
           /\ analytics.providerStats[p].domainCitations = 0)
    => /\ analytics.topPerformingProvider = << "none" >>
       /\ analytics.topProviders = << >>

\* Scenario C: no brand performance, but unrelated citations everywhere
C10_Witness ==
    /\ fpc = "done"
    /\ \A p \in ProviderSet :
          /\ analytics.providerStats[p].brandMentions = 0
          /\ analytics.providerStats[p].domainCitations = 0
          /\ analytics.providerStats[p].citations > 0
    /\ analytics.topPerformingProvider = << "none" >>

----------------------------------------------------------------------------
(* The fold over long answers *)

\* n citations of pages that do not belong to the brand
Unrelated(n) == [k \in 1..n |-> "other"]

\* no answer; a long answer citing only unrelated pages; a long answer of
\* which one citation is the brand's site
LongProviderInputs ==
    { Absent,
      Answer(0, FALSE, Unrelated(ManyCitations)),
      Answer(0, TRUE, << "brand" >> \o Unrelated(ManyCitations - 1)) }

LongQueryInputs == [ProviderSet -> LongProviderInputs]

InitFoldLong ==
    /\ IdleManager
    /\ IdleAdapter
    /\ IdleClient
    /\ IdleView
    /\ IdleCitations
    /\ \E n \in 0..MaxQueries : queryResults \in [1..n -> LongQueryInputs]
    /\ fpc = "input"
    /\ analyses = << >>
    /\ analytics = NoAnalytics

SpecFoldLong == InitFoldLong /\ [][NextFold]_vars

\* the ranked providers of the result, by rank
RankOrder ==
    [k \in 1..Cardinality(DOMAIN analytics.providerRankingDetails) |->
        CHOOSE p \in DOMAIN analytics.providerRankingDetails :
            analytics.providerRankingDetails[p].rank = k]

TopEntry == RankingEntry(RankOrder[1], analytics.providerStats[RankOrder[1]])

\* processed a query, same brand mentions as the top entry, ratio within
\* 0.001 of the top entry's, nonzero performance
TiedWithTop(p) ==
    LET e == RankingEntry(p, analytics.providerStats[p])
    IN  /\ analytics.providerStats[p].queriesProcessed > 0
        /\ e.brandMentions = TopEntry.brandMentions
        /\ RatiosClose(e, TopEntry)
        /\ HasPerformance(e)

RECURSIVE JoinWithAmpersand(_)
JoinWithAmpersand(ps) ==
    IF Len(ps) <= 1 THEN ps
    ELSE << ps[1], " & " >> \o JoinWithAmpersand(Tail(ps))

\* C11: every provider that processed a query, has the brand-mention count
\* of the top-ranked entry, a domain-citation ratio within 0.001 of the top
\* entry's and nonzero performance is listed in topProviders; when there are
\* several, topPerformingProvider is their names joined by ' & ' in ranking
\* order.
C11_TieDetection ==
    (fpc = "done" /\ Len(RankOrder) > 0)
    => LET tied == SelectSeq(RankOrder, TiedWithTop)
       IN  /\ \A k \in 1..Len(tied) : tied[k] \in Range(analytics.topProviders)
           /\ Len(tied) > 1 =>
                 analytics.topPerformingProvider = JoinWithAmpersand(tied)

\* p processed a query and has strictly more accumulated brand mentions than
\* every other provider that processed a query
LeadsInBrandMentions(p) ==
    /\ analytics.providerStats[p].queriesProcessed > 0
    /\ \A q \in ProviderSet \ {p} :
          analytics.providerStats[q].queriesProcessed > 0
          => analytics.providerStats[p].brandMentions
                > analytics.providerStats[q].brandMentions

SoleTopPerformer(p) ==
    /\ analytics.topPerformingProvider = << p >>
    /\ analytics.topProviders = << p >>

\* C12 as stated: a provider whose accumulated brand-mention count is
\* strictly greater than that of every other provider that processed a query
\* is the sole top performer.
C12_BrandMentionsPrimaryKey ==
    fpc = "done"
    => \A p \in ProviderSet : LeadsInBrandMentions(p) => SoleTopPerformer(p)

\* C12 amended: a provider with at least one accumulated brand mention and
\* strictly more of them than every other provider that processed a query is
\* the sole top performer, whatever the domain-citation ratios and citation
\* totals.
C12_PositiveBrandMentionsPrimaryKey ==
    fpc = "done"
    => \A p \in ProviderSet :
          (LeadsInBrandMentions(p) /\ analytics.providerStats[p].brandMentions > 0)
          => SoleTopPerformer(p)

\* the leader in brand mentions has the worse domain-citation ratio and
\* fewer citations than another provider
C12_Witness ==
    /\ fpc = "done"
    /\ \E p \in ProviderSet, q \in ProviderSet :
          /\ LeadsInBrandMentions(p)
          /\ analytics.providerStats[p].brandMentions > 0
          /\ analytics.providerStats[q].queriesProcessed > 0
          /\ analytics.providerStats[q].domainCitations > 0
          /\ analytics.providerStats[p].domainCitations = 0
          /\ analytics.providerStats[q].citations > analytics.providerStats[p].citations
          /\ SoleTopPerformer(p)

\* brandVisibilityScore is kept in hundredths of a percent
FullScore == 100 * 100

\* C13: for every list of query results folded, 0 <= brandVisibilityScore
\* <= 100, and the score is 0 when no provider analysis was counted.
C13_VisibilityScoreBound ==
    fpc = "done"
    => /\ 0 <= analytics.brandVisibilityScore
       /\ analytics.brandVisibilityScore <= FullScore
       /\ (\A p \in ProviderSet : analytics.providerStats[p].queriesProcessed = 0)
          => analytics.brandVisibilityScore = 0

\* two queries, several analyses counted, some of them with a brand mention
C13_Witness ==
    /\ fpc = "done"
    /\ analytics.totalQueriesProcessed = MaxQueries
    /\ analytics.brandVisibilityScore > 0
    /\ analytics.brandVisibilityScore < FullScore
    /\ \E p \in ProviderSet : analytics.providerStats[p].brandMentions > 1

\* C14: for each analysed provider, domainCited is true exactly when
\* domainCitationCount > 0 (some citation's URL contains the brand domain).
C14_DomainCitedIffCounted ==
    \A k \in 1..Len(analyses) :
       \A p \in DOMAIN analyses[k].results :
          analyses[k].results[p].domainCited
             <=> analyses[k].results[p].domainCitationCount > 0

----------------------------------------------------------------------------
(* Specification and properties of the brand document's history *)

\* 50 stored results of an earlier session, the most recent first
FullHistory ==
    [k \in 1..MaxStoredResults |->
        StoredEntry("s0", IF 2 * k <= MaxStoredResults THEN 3 ELSE 2, "short")]

\* the same with its last entry replaced by an older result of session s1
NearlyFullHistory ==
    SubSeq(FullHistory, 1, MaxStoredResults - 1) \o << StoredEntry("s1", 1, "short") >>

InitialHistories ==
    { << >>, << StoredEntry("s1", 1, "short") >>, FullHistory, NearlyFullHistory }

\* what a page saves: the results of its session so far
UpdateInputs ==
    { << StoredEntry("s1", 2, "short") >>,
      << StoredEntry("s1", 2, "short"), StoredEntry("s1", 3, "short") >>,
      << StoredEntry("s1", 4, "long") >>,
      << StoredEntry("s2", 3, "short") >> }

InitHistory ==
    /\ IdleManager
    /\ IdleAdapter
    /\ IdleCitations
    /\ IdleFold
    /\ IdleRun
    /\ IdleView
    /\ history \in InitialHistories
    /\ upd = [w \in Writers |-> NoUpdate]
    /\ updLog = << >>

NextHistory ==
    \/ \E w \in Writers, R \in UpdateInputs : UpdateCall(w, R)
    \/ \E w \in Writers : GetDocOk(w)
    \/ \E w \in Writers : GetDocFail(w)
    \/ \E w \in Writers : SetDocOk(w)
    \/ \E w \in Writers : SetDocFail(w)
    \/ \E w \in Writers : UpdateReturn(w)

SpecHistory == InitHistory /\ [][NextHistory]_vars

Count(seq, e) == Cardinality({i \in 1..Len(seq) : seq[i] = e})

OfSession(seq, s) == SelectSeq(seq, LAMBDA e : e.session = s)

Truncated(R) == [k \in 1..Len(R) |-> Truncate(R[k])]

\* w's call returned no error and no write landed after its own
LandedLast(w) ==
    /\ upd[w].pc = "done"
    /\ ~upd[w].error
    /\ \A i \in (upd[w].wroteAt + 1)..Len(updLog) : ~updLog[i].landed

\* the session of w's argument had entries in the history w read
Replays(w) == OfSession(upd[w].read, CurrentSessionId(upd[w].arg)) # << >>

\* the history w read was written by a call with w's argument
RepeatsLastWrite(w) ==
    /\ upd[w].pc \in {"setDoc", "done"}
    /\ \E i \in 1..upd[w].readAt :
          /\ updLog[i].landed
          /\ updLog[i].arg = upd[w].arg
          /\ \A k \in (i + 1)..upd[w].readAt : ~updLog[k].landed

\* C15 as stated: after a replay of session s with R the stored entries of s
\* are exactly those of R, and repeating the call leaves the history
\* unchanged.
C15_SessionReplayReplaces ==
    \A w \in Writers :
       /\ (LandedLast(w) /\ Replays(w))
          => \A e \in Range(upd[w].arg)
                      \cup Range(OfSession(history, CurrentSessionId(upd[w].arg))) :
                Count(history, e) = Count(upd[w].arg, e)
       /\ RepeatsLastWrite(w) => upd[w].payload = upd[w].read

\* C15 amended: after a replay of session s with R the stored entries of s
\* are those of R, long responses truncated, that are among the 50 most
\* recent results: all of them when the other sessions' entries and R number
\* at most 50; no old entry of s stays; repeating the call leaves the
\* history unchanged.
C15_SessionReplayReplacesWithinCap ==
    \A w \in Writers :
       /\ (LandedLast(w) /\ Replays(w))
          => LET s == CurrentSessionId(upd[w].arg)
                 R == Truncated(upd[w].arg)
                 others == Len(upd[w].read) - Len(OfSession(upd[w].read, s))
             IN  /\ \A e \in Range(OfSession(history, s)) :
                       Count(history, e) <= Count(R, e)
                 /\ others + Len(R) <= MaxStoredResults
                    => \A e \in Range(R) : Count(history, e) = Count(R, e)
                 /\ \A e \in Range(R) :
                       Count(history, e) < Count(R, e)
                       => \A k \in 1..Len(history) : history[k].date >= e.date
       /\ RepeatsLastWrite(w) => upd[w].payload = upd[w].read

\* a page saved two results of a session that had an older entry, then made
\* the same call again, and both writes landed
C15_Witness ==
    \E w \in Writers :
       /\ LandedLast(w)
       /\ Replays(w)
       /\ RepeatsLastWrite(w)
       /\ Len(upd[w].arg) = 2
       /\ \A e \in Range(upd[w].arg) : Count(history, e) = 1
       /\ Len(OfSession(history, CurrentSessionId(upd[w].arg))) = 2

\* what w's call had to choose from: the entries of the other sessions it
\* read, then its argument
Candidates(w) ==
    SelectSeq(upd[w].read, LAMBDA e : e.session # CurrentSessionId(upd[w].arg))
    \o upd[w].arg

LaterThan(seq, d) == Cardinality({i \in 1..Len(seq) : seq[i].date > d})

\* C16: the stored array holds at most 50 entries, is ordered
\* most-recent-first by date, and when a call had more than 50 candidates
\* the entries kept are the 50 with the latest dates.
C16_HistoryCapped ==
    /\ Len(history) <= MaxStoredResults
    /\ \A i \in 1..Len(history) : \A j \in i..Len(history) :
          history[i].date >= history[j].date
    /\ \A w \in Writers :
          LandedLast(w)
          => /\ \A e \in Range(history) : Count(history, e) <= Count(Truncated(Candidates(w)), e)
             /\ Len(Candidates(w)) <= MaxStoredResults
                => Len(history) = Len(Candidates(w))
             /\ Len(Candidates(w)) > MaxStoredResults
                => /\ Len(history) = MaxStoredResults
                   /\ LaterThan(history, history[MaxStoredResults].date)
                      = LaterThan(Candidates(w), history[MaxStoredResults].date)

\* a call with 51 candidates landed: its new result is on top and one of the
\* oldest stored results is gone
C16_Witness ==
    \E w \in Writers :
       /\ LandedLast(w)
       /\ Len(Candidates(w)) > MaxStoredResults
       /\ history[1].session = CurrentSessionId(upd[w].arg)
       /\ Len(OfSession(history, "s0")) < Len(OfSession(upd[w].read, "s0"))

\* both calls returned no error, for different sessions; a read the document
\* before b's write landed and a's write landed after b's
Interleaved(a, b) ==
    /\ a # b
    /\ upd[a].pc = "done" /\ ~upd[a].error
    /\ upd[b].pc = "done" /\ ~upd[b].error
    /\ CurrentSessionId(upd[a].arg) # CurrentSessionId(upd[b].arg)
    /\ upd[a].readAt < upd[b].wroteAt
    /\ upd[b].wroteAt < upd[a].wroteAt

\* C17: the update is an unprotected read-modify-write: when the calls of
\* two sessions interleave as above, the history after both holds nothing
\* that the earlier write saved (only what the later writer had read).
C17_LostUpdate ==
    \A a \in Writers, b \in Writers :
       (Interleaved(a, b) /\ LandedLast(a))
       => \A e \in Range(Truncated(upd[b].arg)) :
             Count(history, e) <= Count(upd[a].read, e)

\* the lost update, with fewer than 50 results in all
C17_Witness ==
    \E a \in Writers, b \in Writers :
       /\ Interleaved(a, b)
       /\ LandedLast(a)
       /\ upd[b].arg # << >>
       /\ Len(upd[a].read) + Len(upd[a].arg) + Len(upd[b].arg) <= MaxStoredResults
       /\ OfSession(history, CurrentSessionId(upd[b].arg)) = << >>
       /\ OfSession(history, CurrentSessionId(upd[a].arg)) # << >>

----------------------------------------------------------------------------
(* Specification and properties of the process-queries component *)

InitRun ==
    /\ IdleManager
    /\ IdleAdapter
    /\ IdleCitations
    /\ IdleFold
    /\ IdleStore
    /\ IdleRun
    /\ IdleView

NextRun ==
    \/ \E n \in 0..MaxRunQueries : runs < MaxRuns /\ ClickProcess(n)
    \/ TokenOk
    \/ TokenFail
    \/ FetchOk
    \/ \E o \in FetchOutcomes : FetchFail(o)
    \/ GetDocOk(ThisPage)
    \/ GetDocFail(ThisPage)
    \/ SetDocOk(ThisPage)
    \/ SetDocFail(ThisPage)
    \/ SaveReturned
    \/ DelayDone
    \/ StopClick
    \/ TimerFires

SpecRun == InitRun /\ [][NextRun]_vars

\* the calls of session s that were answered 2xx
OkCalls(log, s) ==
    Cardinality({i \in 1..Len(log) : log[i].session = s /\ log[i].outcome = "ok"})

\* this step ends a run through lines 272-300
RunCompletes == Len(completions') = Len(completions) + 1

LastCompletion == completions'[Len(completions')]

\* C18: the cancellation flag is checked before each query starts: while the
\* flag is set no /api/user-query call is started; a call in flight when the
\* flag was set still completes, and the result of a 2xx answer is collected,
\* handed to the save and still among the results the run ends with.
C18_CancellationCheckedBeforeEachQuery ==
    [][ /\ cancelledRef => Len(apiCalls') = Len(apiCalls)
        /\ (cancelledRef /\ run.pc = "fetch" /\ run' # run) =>
              /\ apiCalls'[Len(apiCalls')].outcome # "pending"
              /\ apiCalls'[Len(apiCalls')].outcome = "ok" =>
                    /\ run'.allResults =
                          Append(run.allResults,
                                 StoredEntry(run.session, clock, "short"))
                    /\ upd'[ThisPage].arg = run'.allResults
        /\ (cancelledRef /\ RunCompletes) =>
              Len(LastCompletion.queryResults) = OkCalls(apiCalls', run.session)
      ]_vars

\* the stop button was clicked while the first of two queries was in flight;
\* the run ended with that query's result and without a second call
C18_Witness ==
    \E k \in 1..Len(stops), c \in 1..Len(completions) :
       /\ stops[k].pc = "fetch"
       /\ stops[k].qi = 1
       /\ completions[c].session = stops[k].session
       /\ completions[c].cancelled
       /\ completions[c].summary.totalQueries = 2
       /\ Len(completions[c].queryResults) = 1
       /\ Len(OfSession(apiCalls, stops[k].session)) = 1

\* the last invocation of updateBrandWithQueryResults was handed all of R
SavedLast(R) == updLog # << >> /\ updLog[Len(updLog)].arg = R

SaveFailedReturns == run.pc = "save" /\ run'.pc = "delay" /\ upd[ThisPage].error

\* C20: when updateBrandWithQueryResults returns an error the error is logged
\* and the results collected so far stay in memory; after the delay the next
\* query is started (unless the run was cancelled or no query remains); the
\* results in memory are, at every moment, one per 2xx answer of the run, and
\* all of them are passed to onComplete.
C20_PersistFailureKeepsResults ==
    [][ /\ SaveFailedReturns =>
              /\ saveErrors' = saveErrors + 1
              /\ run'.allResults = run.allResults
              /\ run'.qi = run.qi
        /\ (run.pc = "delay" /\ run' # run /\ ~cancelledRef /\ run.qi < run.n) =>
              /\ run'.pc = "fetch"
              /\ run'.allResults = run.allResults
              /\ Len(apiCalls') = Len(apiCalls) + 1
        /\ run'.pc \in {"fetch", "save", "delay"} =>
              Len(run'.allResults) = OkCalls(apiCalls', run'.session)
        /\ RunCompletes =>
              /\ LastCompletion.queryResults = run.allResults
              /\ Len(run.allResults) = OkCalls(apiCalls', run.session)
      ]_vars

\* the save of the first result failed; the run went on to the second query
\* and handed both results to onComplete
C20_Witness ==
    \E c \in 1..Len(completions) :
       /\ saveErrors = 1
       /\ updLog # << >>
       /\ ~updLog[1].landed
       /\ Len(updLog[1].arg) = 1
       /\ completions[c].success
       /\ Len(completions[c].queryResults) = 2
       /\ updLog[1].arg[1] = completions[c].queryResults[1]
       /\ Len(OfSession(apiCalls, completions[c].session)) = 2

----------------------------------------------------------------------------
(* Specification and properties of the lifetime fold *)

InitLifetime ==
    /\ IdleManager
    /\ IdleAdapter
    /\ IdleCitations
    /\ IdleFold
    /\ IdleClient
    /\ IdleHooks
    /\ \/ sources = [brand |-> [exists |-> FALSE, storageReferences |-> FALSE,
                                results |-> << >>],
                     storage |-> [present |-> FALSE, results |-> << >>],
                     legacy |-> << >>]
       \/ \E sr \in BOOLEAN, rs \in BrandResultInputs, st \in StorageInputs,
             lg \in LegacyInputs :
             sources = [brand |-> [exists |-> TRUE, storageReferences |-> sr,
                                   results |-> rs],
                        storage |-> st, legacy |-> lg]
    /\ life = NoLife
    /\ lifeLog = << >>

NextLifetime ==
    \/ LifeStart
    \/ BrandFound
    \/ \E o \in {"null", "throws"} : BrandMissing(o)
    \/ \E o \in {"ok", "throws"} : StorageReturns(o)
    \/ \E o \in {"result", "error", "throws"} : HistoricalReturns(o)

SpecLifetime == InitLifetime /\ [][NextLifetime]_vars

\* the query results a call can gather when its storage retrieval ended as st
\* and its historical lookup as hs
Gatherable(st, hs) ==
    (IF st = "ok" /\ sources.storage.present
     THEN sources.storage.results ELSE sources.brand.results)
    \o (IF hs = "result" THEN ConvertedResults(sources.legacy) ELSE << >>)

\* C21: a call whose Cloud Storage retrieval threw or whose historical-query
\* lookup threw or returned an error still returns a result and no error, and
\* the result is the fold of the query results of the sources that answered.
C21_FailingSourcesTolerated ==
    \A k \in 1..Len(lifeLog) :
       LET e == lifeLog[k]
       IN  (e.storage = "throws" \/ e.historical \in {"throws", "error"}) =>
              /\ e.error = "none"
              /\ e.all = Gatherable(e.storage, e.historical)
              /\ e.result = LifetimeAnalytics(e.all, SessionsOf(e.all))

\* both the storage retrieval and the historical lookup threw, and the call
\* returned the fold of the brand document's own results
C21_Witness ==
    \E k \in 1..Len(lifeLog) :
       /\ lifeLog[k].storage = "throws"
       /\ lifeLog[k].historical = "throws"
       /\ lifeLog[k].error = "none"
       /\ lifeLog[k].result.totalQueriesProcessed = 2
       /\ lifeLog[k].result.totalBrandMentions = 1
       /\ sources.legacy # << >>
       /\ sources.storage.present

\* the brand document's results as a call read them when its storage
\* retrieval ended as st
BrandPart(st) ==
    IF st = "ok" /\ sources.storage.present
    THEN sources.storage.results ELSE sources.brand.results

\* the results converted from v8userqueries
HistoricalPart == ConvertedResults(sources.legacy)

Larger(a, b) == IF a >= b THEN a ELSE b

SameReading(a, b) ==
    /\ a.error = "none"
    /\ b.error = "none"
    /\ a.storage = b.storage
    /\ a.historical = b.historical

RefusedAnswer ==
    /\ run.pc = "fetch"
    /\ run' # run
    /\ apiCalls'[Len(apiCalls)].outcome \in {"credits", "auth"}

\* C24: when a query is answered with code INSUFFICIENT_CREDITS or
\* AUTHENTICATION_REQUIRED the run stops at that query: no later query is
\* sent, the status becomes 'error' and the run is over.
C24_CreditAndAuthErrorsStopRun ==
    [][ RefusedAnswer =>
           /\ Len(apiCalls') = Len(apiCalls)
           /\ status' = "error"
           /\ ~processing'
      ]_vars

\* p processed a query and has brand mentions or domain citations
Performs(p) ==
    /\ analytics.providerStats[p].queriesProcessed > 0
    /\ \/ analytics.providerStats[p].brandMentions > 0
       \/ analytics.providerStats[p].domainCitations > 0

\* C25: when some provider that processed a query has brand mentions or
\* domain citations, topPerformingProvider is not 'none', topProviders is not
\* empty and every provider listed has brand mentions or domain citations.
C25_NoneOnlyWithoutPerformance ==
    (fpc = "done" /\ \E p \in ProviderSet : Performs(p)) =>
       /\ analytics.topPerformingProvider # << "none" >>
       /\ analytics.topProviders # << >>
       /\ \A k \in 1..Len(analytics.topProviders) : Performs(analytics.topProviders[k])

----------------------------------------------------------------------------
(* The process button clicked again after a run: brands of at most one query *)

NextClicks ==
    \/ \E n \in 0..1 : runs < MaxClicks /\ ClickProcess(n)
    \/ TokenOk
    \/ TokenFail
    \/ FetchOk
    \/ \E o \in FetchOutcomes : FetchFail(o)
    \/ GetDocOk(ThisPage)
    \/ GetDocFail(ThisPage)
    \/ SetDocOk(ThisPage)
    \/ SetDocFail(ThisPage)
    \/ SaveReturned
    \/ DelayDone
    \/ StopClick
    \/ TimerFires

SpecClicks == InitRun /\ [][NextClicks]_vars

\* C26: whenever the processing flag is true the status is 'processing'.
C26_ProcessingImpliesStatus == processing => status = "processing"

----------------------------------------------------------------------------
(* Specification and properties of the analytics hooks *)

InitHooks ==
    /\ IdleManager
    /\ IdleAdapter
    /\ IdleCitations
    /\ IdleFold
    /\ IdleClient
    /\ IdleLife
    /\ IdleHooks

NextHooks ==
    \/ \E b \in Brands \union {"undefined"} : ChangeBrand(b)
    \/ \E i \in 1..Len(fetches), o \in {"result", "error", "throws"} : CalcReturns(i, o)
    \/ \E i \in 1..Len(fetches), o \in {"session", "none", "throws"} : SessionReturns(i, o)
    \/ \E i \in 1..Len(fetches), o \in {"ok", "fails"} : SaveReturns(i, o)

SpecHooks == InitHooks /\ [][NextHooks]_vars

\* the fetch the latest effect of hook k started
LatestFetch(k) ==
    CHOOSE i \in 1..Len(fetches) :
       /\ fetches[i].kind = k
       /\ \A j \in 1..Len(fetches) : fetches[j].kind = k => j <= i

\* C27: in each hook, once every fetch has completed the analytics in state
\* are those of the current brandId (or none), and loading is true while the
\* fetch for the current brandId is pending.
C27_StaleResponseIgnored ==
    \A k \in Kinds :
       (brandId \in Brands /\ \E i \in 1..Len(fetches) : fetches[i].kind = k) =>
          /\ (\A i \in 1..Len(fetches) : fetches[i].pc = "done") =>
                hook[k].analytics \in {brandId, "null"}
          /\ fetches[LatestFetch(k)].pc # "done" => hook[k].loading

----------------------------------------------------------------------------
(* Further properties of the process-queries component *)

\* C28: a run ends in status 'cancelled', reporting cancelled = true and
\* success = false, only if a queued query was not started; a run whose
\* queries were all started ends in status 'success'.
C28_CancelledOnlyIfQueryPrevented ==
    [][ RunCompletes =>
           /\ (status' = "cancelled" \/ LastCompletion.cancelled
                   \/ ~LastCompletion.success) => run.qi < run.n
           /\ run.qi = run.n => status' = "success"
      ]_vars

\* the calls of session s that were not answered 2xx
FailedCalls(log, s) ==
    Cardinality({i \in 1..Len(log) :
                    log[i].session = s /\ log[i].outcome \notin {"ok", "pending"}})

\* C29: in every summary passed to onComplete processedQueries is the number
\* of results in queryResults, totalErrors the number of queries that failed
\* and creditsUsed ten times the number of queries that succeeded.
C29_SummaryCounts ==
    \A c \in 1..Len(completions) :
       LET s == completions[c].summary
           id == completions[c].session
       IN  /\ s.processedQueries = Len(completions[c].queryResults)
           /\ s.totalErrors = FailedCalls(apiCalls, id)
           /\ s.creditsUsed = CreditsPerQuery * OkCalls(apiCalls, id)

----------------------------------------------------------------------------
(* Further properties of the ProviderManager *)

\* the invocation that created the job of request id has not returned
JobInFlight(id) ==
    \E c \in 1..Len(calls) : calls[c].id = id /\ calls[c].creator /\ ~calls[c].returned

\* this step is an executeRequest call
Invoked == Len(calls') = Len(calls) + 1

\* C30: activeJobs has an entry for a request id exactly while the job
\* created for it is in flight, and the entry is that job; once every
\* executeRequest call has returned the map is empty; an executeRequest made
\* when the calls for its id have returned creates a new job and executes
\* every configured adapter it names.
C30_ActiveJobsLifecycle ==
    [][ /\ \A id \in RequestIds :
              (id \in DOMAIN activeJobs') <=> JobInFlight(id)'
        /\ (\A c \in 1..Len(calls') : calls'[c].returned) => activeJobs' = << >>
        /\ Invoked =>
              LET new == calls'[Len(calls')]
              IN  (\A c \in 1..Len(calls) : calls[c].id = new.id => calls[c].returned) =>
                     /\ new.creator
                     /\ Len(jobs') = Len(jobs) + 1
                     /\ new.job = Len(jobs')
                     /\ activeJobs'[new.id] = new.job
                     /\ \A i \in 1..Len(jobs'[new.job].calls) :
                           HasProvider(jobs'[new.job].names[i]) =>
                              /\ jobs'[new.job].calls[i].executed
                              /\ jobs'[new.job].calls[i].state = "pending"
      ]_vars

\* two calls with the same id, the second made after the first returned:
\* each created its own job and ran the adapter, and the map is empty again
C30_Witness ==
    /\ Len(calls) = 2
    /\ calls[1].id = calls[2].id
    /\ calls[1].creator /\ calls[2].creator
    /\ calls[1].job # calls[2].job
    /\ calls[1].returned /\ calls[2].returned
    /\ \E i \in 1..Len(jobs[2].calls) : jobs[2].calls[i].executed
    /\ jobs[1].done /\ jobs[2].done
    /\ activeJobs = << >>

====
